---- MODULE Spec2Model ----
(***************************************************************************)
(* Model of the resolution pipeline of jsprose/core:                       *)
(*   - resolveRawElement (raw tree -> prose tree, ids, uniques),           *)
(*   - createId / uniqueName2Id (identity assignment),                     *)
(*   - fillStorage (asynchronous storage fill),                            *)
(*   - walkElements, hash, defineUnique, Registry, normalizeChildren,      *)
(*   - defineTag and Fragment, defineDocument and its finalizer,           *)
(*   - isolateProse.                                                       *)
(***************************************************************************)
EXTENDS Integers, Sequences, FiniteSets, TLC

\* ------------------------------------------------------------------------
\* Bounds
\* ------------------------------------------------------------------------

\* Largest number of elements in an input tree.
MaxNodes == 3

\* ------------------------------------------------------------------------
\* Values
\* ------------------------------------------------------------------------

\* The JavaScript value undefined of an optional string property.
Undef == "<undefined>"

\* JavaScript truthiness of an optional string: undefined and '' are falsy.
Truthy(s) == s # Undef /\ s # ""

\* Schemas registered in PROSE_REGISTRY while a tree is resolved: the
\* built-in mix schema and the schemas of the test suite.
mixSchema == [name |-> "mix", linkable |-> FALSE]
paragraphSchema == [name |-> "paragraph", linkable |-> TRUE]
imageSchema == [name |-> "image", linkable |-> TRUE]
storagableSchema == [name |-> "storagable", linkable |-> FALSE]

RegisteredSchemas == {mixSchema, paragraphSchema, imageSchema, storagableSchema}

\* Registry.getSchema: the schema registered under a name.
getSchema(schemaName) == CHOOSE s \in RegisteredSchemas : s.name = schemaName

\* kebabCase on the names used by the model: camelCase words are split at
\* the capital and lower-cased, a string already in kebab-case is unchanged.
kebabCase(s) ==
    CASE s = "myUnique" -> "my-unique"
      [] s = "myOther" -> "my-other"
      [] OTHER -> s

uniqueName2Id(uniqueName) == kebabCase(uniqueName)

\* ------------------------------------------------------------------------
\* Raw trees
\* ------------------------------------------------------------------------

\* The element attributes an input tree is built from.  emptyList tells
\* whether an element without child elements has children [] or undefined.
ElementKinds ==
    { [schemaName |-> "paragraph", hash |-> "Ab3", slug |-> Undef,
       uniqueName |-> Undef, data |-> Undef, storageKey |-> Undef,
       emptyList |-> TRUE],
      [schemaName |-> "paragraph", hash |-> "Ab3", slug |-> "myUnique",
       uniqueName |-> Undef, data |-> Undef, storageKey |-> Undef,
       emptyList |-> TRUE],
      [schemaName |-> "paragraph", hash |-> "Cd4", slug |-> "my-unique-1",
       uniqueName |-> Undef, data |-> Undef, storageKey |-> Undef,
       emptyList |-> FALSE],
      [schemaName |-> "paragraph", hash |-> "Ef5", slug |-> Undef,
       uniqueName |-> "myUnique", data |-> Undef, storageKey |-> Undef,
       emptyList |-> TRUE],
      [schemaName |-> "image", hash |-> "Gh6", slug |-> "myOther",
       uniqueName |-> "my-unique", data |-> "cat", storageKey |-> "cat.jpg",
       emptyList |-> FALSE],
      [schemaName |-> "mix", hash |-> "Ij7", slug |-> Undef,
       uniqueName |-> Undef, data |-> Undef, storageKey |-> Undef,
       emptyList |-> TRUE],
      [schemaName |-> "storagable", hash |-> "Kl8", slug |-> "my-unique",
       uniqueName |-> "myUnique", data |-> "info", storageKey |-> "info.txt",
       emptyList |-> TRUE] }

\* Sets of ids a caller may pass as args.ids; given = FALSE is an absent
\* argument.
ExternalIdChoices ==
    { [given |-> FALSE, members |-> {}],
      [given |-> TRUE, members |-> {"my-unique"}],
      [given |-> TRUE, members |-> {"my-unique-1", "paragraph-Ab3"}] }

\* The values of args.linkable.
LinkableChoices == {"true", "false", "absent"}

VARIABLES
    raw,          \* the raw tree: element number -> attributes, root is 1
    parent,       \* the raw tree: element number -> number of its parent
    linkableArg,  \* args.linkable
    externalIds,  \* args.ids, the caller's set object
    phase,        \* position of resolveRawElement
    ids,          \* the local set ids
    uniqueIds,    \* the local set uniqueIds
    scanned,      \* the number of elements the pre-scan has visited
    uniques,      \* the record uniques: unique name -> prose element
    prose,        \* prose elements created so far, by raw element number
    stack,        \* active calls of resolveRecursive, innermost last
    hookLog,      \* the calls of the hook functions pre and post, in order
    storage,      \* fillStorage: args.storage, key -> value
    storageAtCall, \* fillStorage: args.storage as it was when called
    task,         \* fillStorage: position of createStorageFor per element
    generatorCalls, \* fillStorage: the calls of generators, <<element, key>>
    stepLog,      \* fillStorage: the elements passed to args.step, in order
    walkHoles,    \* walkElements: the children slots that hold a falsy value
    walkStack,    \* walkElements: the active calls, innermost last
    walkLog,      \* walkElements: the elements step was invoked on, in order
    walkSignal,   \* walkElements: element -> what its step returned
    walkActive,   \* walkElements: the elements whose step is in progress
    walkResult,   \* walkElements: what the outermost call returned
    heap,         \* raw element objects by address
    uniqueRaw,    \* defineUnique: unique name -> address of _rawElement
    uniqueLog,    \* defineUnique: the assignments to rawElement, in order
    regItems,     \* Registry.items: schema name -> registry item
    regTags,      \* Registry.tags: tag name -> tag
    regLast,      \* Registry: the last call, with the maps it found
    childrenArg,  \* normalizeChildren: the children argument
    normalized,   \* normalizeChildren: the returned list of addresses
    tagCall,      \* defineTag: the last invocation of a tag, and its outcome
    docIds,       \* PROSE_SINGLETON.document.ids
    autoIdCounter, \* PROSE_SINGLETON.document.autoIdCounter
    docLog,       \* defineDocument: the calls and their outcomes, in order
    finalLog      \* finalizeDocument: the calls and their outcomes, in order

resolveVars == <<raw, linkableArg, externalIds, ids, uniqueIds, scanned,
                 uniques, stack, hookLog>>

fillVars == <<storage, storageAtCall, task, generatorCalls, stepLog>>

walkVars == <<walkHoles, walkStack, walkLog, walkSignal, walkActive,
              walkResult>>

uniqueVars == <<uniqueRaw, uniqueLog>>

registryVars == <<regItems, regTags, regLast>>

normalizeVars == <<childrenArg, normalized>>

tagVars == <<tagCall>>

documentVars == <<docIds, autoIdCounter, docLog, finalLog>>

\* The variables the actions of one component leave alone.
outsideResolve == <<fillVars, walkVars, heap, uniqueVars, registryVars,
                    normalizeVars,
    tagVars, documentVars>>
outsideFill == <<resolveVars, walkVars, heap, uniqueVars, registryVars,
                 normalizeVars,
    tagVars, documentVars>>
outsideWalk == <<resolveVars, fillVars, prose, heap, uniqueVars,
                 registryVars, normalizeVars,
    tagVars, documentVars>>
outsideUnique == <<resolveVars, fillVars, walkVars, parent, phase, prose,
                   heap, registryVars, normalizeVars,
    tagVars, documentVars>>
outsideRegistry == <<resolveVars, fillVars, walkVars, parent, phase, prose,
                     heap, uniqueVars, normalizeVars,
    tagVars, documentVars>>
outsideTag == <<resolveVars, fillVars, walkVars, parent, prose,
               registryVars, normalizeVars, documentVars>>
outsideDocument == <<resolveVars, fillVars, walkVars, parent, prose,
                    normalizeVars, tagVars>>
outsideNormalize == <<resolveVars, fillVars, walkVars, parent, prose,
                      uniqueVars, registryVars,
    tagVars, documentVars>>

vars == <<raw, parent, linkableArg, externalIds, phase, ids, uniqueIds,
          scanned, uniques, prose, stack, hookLog, storage, storageAtCall, task,
          generatorCalls, stepLog, walkHoles, walkStack, walkLog, walkSignal,
          walkActive, walkResult, heap, uniqueRaw, uniqueLog, regItems,
          regTags, regLast, childrenArg, normalized, tagCall, docIds,
          autoIdCounter, docLog, finalLog>>

\* A component that is not running: nothing was passed to it and it holds
\* nothing.
ResolveIdle ==
    /\ raw = << >>
    /\ linkableArg = "absent"
    /\ externalIds = [given |-> FALSE, members |-> {}]
    /\ ids = {}
    /\ uniqueIds = {}
    /\ scanned = 0
    /\ uniques = << >>
    /\ stack = <<>>
    /\ hookLog = <<>>

FillIdle ==
    /\ storage = << >>
    /\ storageAtCall = << >>
    /\ task = << >>
    /\ generatorCalls = <<>>
    /\ stepLog = <<>>

WalkIdle ==
    /\ walkHoles = {}
    /\ walkStack = <<>>
    /\ walkLog = <<>>
    /\ walkSignal = << >>
    /\ walkActive = {}
    /\ walkResult = "pending"

UniqueIdle ==
    /\ uniqueRaw = << >>
    /\ uniqueLog = <<>>

RegistryIdle ==
    /\ regItems = << >>
    /\ regTags = << >>
    /\ regLast = << >>

NormalizeIdle ==
    /\ childrenArg = << >>
    /\ normalized = << >>

TagIdle == tagCall = << >>

DocumentIdle ==
    /\ docIds = {}
    /\ autoIdCounter = 1
    /\ docLog = <<>>
    /\ finalLog = <<>>

Nodes == DOMAIN raw

Root == 1

\* rawElement.children of element n as a sequence of element numbers, in
\* order.
RECURSIVE ChildrenFrom(_, _)
ChildrenFrom(n, k) ==
    IF k > Len(parent) THEN <<>>
    ELSE IF k # Root /\ parent[k] = n THEN <<k>> \o ChildrenFrom(n, k + 1)
    ELSE ChildrenFrom(n, k + 1)

ChildrenOf(n) == ChildrenFrom(n, 1)

\* rawElement.children is undefined.
ChildrenUndefined(n) == ChildrenOf(n) = <<>> /\ ~raw[n].emptyList

linkable == linkableArg = "true"

\* Variant: the linkable argument is not consulted.
ShouldAssignIdAnyMode(n) == getSchema(raw[n].schemaName).linkable

\* linkable && schema.linkable: whether resolveRecursive calls createId for
\* raw element n.
ShouldAssignId(n) == linkable /\ getSchema(raw[n].schemaName).linkable

\* ------------------------------------------------------------------------
\* Identity assignment (id.ts)
\* ------------------------------------------------------------------------

\* `${baseId}-${dedupeCounter}`
SuffixedId(baseId, dedupeCounter) == baseId \o "-" \o ToString(dedupeCounter)

\* Variant of the loop that never tries the bare base id.
RECURSIVE DedupeSuffixedOnly(_, _, _, _)
DedupeSuffixedOnly(idSet, uniqueIdSet, baseId, dedupeCounter) ==
    LET id == SuffixedId(baseId, dedupeCounter + 1)
    IN IF id \in idSet \/ id \in uniqueIdSet
       THEN DedupeSuffixedOnly(idSet, uniqueIdSet, baseId, dedupeCounter + 1)
       ELSE id

\* Variant of the loop that probes the set ids only.
RECURSIVE DedupeIdsOnly(_, _, _, _)
DedupeIdsOnly(idSet, uniqueIdSet, baseId, dedupeCounter) ==
    LET id == IF dedupeCounter = 0 THEN baseId
              ELSE SuffixedId(baseId, dedupeCounter)
    IN IF id \in idSet
       THEN DedupeIdsOnly(idSet, uniqueIdSet, baseId, dedupeCounter + 1)
       ELSE id

\* The while loop of createId: the first id of baseId, baseId-1, ... that
\* is in neither set.
RECURSIVE Dedupe(_, _, _, _)
Dedupe(idSet, uniqueIdSet, baseId, dedupeCounter) ==
    LET id == IF dedupeCounter = 0 THEN baseId
              ELSE SuffixedId(baseId, dedupeCounter)
    IN IF id \in idSet \/ id \in uniqueIdSet
       THEN Dedupe(idSet, uniqueIdSet, baseId, dedupeCounter + 1)
       ELSE id

\* The base id of an element without unique name.
BaseId(rawElement) ==
    IF Truthy(rawElement.slug) THEN kebabCase(rawElement.slug)
    ELSE rawElement.schemaName \o "-" \o rawElement.hash

\* Variant of createId that returns the id without adding it to ids.
createIdNoReserve(idSet, uniqueIdSet, rawElement) ==
    IF Truthy(rawElement.uniqueName)
    THEN LET id == uniqueName2Id(rawElement.uniqueName)
         IN IF id \in idSet
            THEN [threw |-> TRUE, id |-> Undef, ids |-> idSet]
            ELSE [threw |-> FALSE, id |-> id, ids |-> idSet]
    ELSE LET id == Dedupe(idSet, uniqueIdSet, BaseId(rawElement), 0)
         IN [threw |-> FALSE, id |-> id, ids |-> idSet]

\* Variant of createId that dedupes the id of a unique like any other id.
createIdDedupeUnique(idSet, uniqueIdSet, rawElement) ==
    LET baseId == IF Truthy(rawElement.uniqueName)
                  THEN uniqueName2Id(rawElement.uniqueName)
                  ELSE BaseId(rawElement)
        id == Dedupe(idSet, uniqueIdSet, baseId, 0)
    IN [threw |-> FALSE, id |-> id, ids |-> idSet \cup {id}]

\* createId(ids, uniqueIds, rawElement): threw tells whether it raised,
\* id is the returned id and ids the set ids after the call.
createId(idSet, uniqueIdSet, rawElement) ==
    IF Truthy(rawElement.uniqueName)
    THEN LET id == uniqueName2Id(rawElement.uniqueName)
         IN IF id \in idSet
            THEN [threw |-> TRUE, id |-> Undef, ids |-> idSet]
            ELSE [threw |-> FALSE, id |-> id, ids |-> idSet \cup {id}]
    ELSE LET id == Dedupe(idSet, uniqueIdSet, BaseId(rawElement), 0)
         IN [threw |-> FALSE, id |-> id, ids |-> idSet \cup {id}]

\* ------------------------------------------------------------------------
\* resolveRawElement
\* ------------------------------------------------------------------------

\* The order in which walkElements visits the subtree of n when step
\* returns no signal: the element, then its children left to right.
RECURSIVE PreOrder(_), PreOrderAll(_)
PreOrder(n) == <<n>> \o PreOrderAll(ChildrenOf(n))
PreOrderAll(list) ==
    IF list = <<>> THEN <<>>
    ELSE PreOrder(Head(list)) \o PreOrderAll(Tail(list))

\* The step callback of the pre-scan, invoked on rawElement: an element
\* with a unique name is rejected when the id of the name is in ids, and
\* otherwise the id is added to uniqueIds.
preScanStep(rawElement, idSet, uniqueIdSet) ==
    LET id == uniqueName2Id(rawElement.uniqueName)
    IN IF ~Truthy(rawElement.uniqueName)
       THEN [threw |-> FALSE, uniqueIds |-> uniqueIdSet]
       ELSE IF id \in idSet
       THEN [threw |-> TRUE, uniqueIds |-> uniqueIdSet]
       ELSE [threw |-> FALSE, uniqueIds |-> uniqueIdSet \cup {id}]

\* new Set<string>(externalIds): the members of the new set, none when the
\* argument is absent.
NewSet(external) == IF external.given THEN external.members ELSE {}

\* Variant: ids is bound to the argument without copying.
IdsIsCallersObjectAliased == TRUE

\* Whether the local ids is the caller's set object itself: the constructor
\* call makes a new object, so it is not.
IdsIsCallersObject == FALSE

\* The caller's set object after the local set ids became newIds.
CallersSetAfter(newIds) ==
    IF IdsIsCallersObject /\ externalIds.given
    THEN [externalIds EXCEPT !.members = newIds]
    ELSE externalIds

\* Variant: the resolved child is put in front.
PushResolvedFront(resolvedChildren, resolvedChild) ==
    <<resolvedChild>> \o resolvedChildren

\* resolvedChildren.push(resolvedChild)
PushResolved(resolvedChildren, resolvedChild) ==
    Append(resolvedChildren, resolvedChild)

\* resolveRawElement is called: hook() is invoked and awaited.
Begin ==
    /\ phase = "start"
    /\ phase' = "hook"
    /\ UNCHANGED <<raw, parent, linkableArg, externalIds, ids, uniqueIds,
                   scanned, uniques, prose, stack, hookLog>>
    /\ UNCHANGED outsideResolve

\* The ids a caller may add to the set it passed.
CallerIds == {"my-unique"}

\* While hook() is pending the caller adds an id to the set it passed as
\* args.ids.  The set is read once, when hook() has settled; what the
\* caller does with it later has no effect on the call.
CallerAdds ==
    /\ phase = "hook"
    /\ externalIds.given
    /\ \E id \in CallerIds \ externalIds.members :
          externalIds' = [externalIds EXCEPT !.members = @ \cup {id}]
    /\ UNCHANGED <<raw, parent, linkableArg, phase, ids, uniqueIds, scanned,
                   uniques, prose, stack, hookLog>>
    /\ UNCHANGED outsideResolve

\* hook() settles: the local sets ids and uniqueIds are created; when
\* linkable the pre-scan starts, otherwise resolveRecursive is called.
HookSettles ==
    /\ phase = "hook"
    /\ ids' = NewSet(externalIds)
    /\ uniqueIds' = {}
    /\ phase' = IF linkable THEN "prescan" ELSE "resolving"
    /\ UNCHANGED <<raw, parent, linkableArg, externalIds, scanned, uniques,
                   prose, stack, hookLog>>
    /\ UNCHANGED outsideResolve

\* The pre-scan visits its next element: walkElements awaits the step
\* callback on it.  A throw rejects the call; after the last element
\* resolveRecursive is called.
PreScanStep ==
    /\ phase = "prescan"
    /\ scanned < Len(PreOrder(Root))
    /\ LET step == preScanStep(raw[PreOrder(Root)[scanned + 1]], ids,
                               uniqueIds)
       IN /\ uniqueIds' = step.uniqueIds
          /\ scanned' = scanned + 1
          /\ phase' = IF step.threw THEN "rejected"
                      ELSE IF scanned' = Len(PreOrder(Root)) THEN "resolving"
                      ELSE "prescan"
    /\ UNCHANGED <<raw, parent, linkableArg, externalIds, ids, uniques,
                   prose, stack, hookLog>>
    /\ UNCHANGED outsideResolve

\* Variant: the children are taken from the last to the first.
NextCalleeFromLast ==
    IF stack = <<>> THEN Root
    ELSE LET top == stack[Len(stack)]
         IN ChildrenOf(top.node)[Len(ChildrenOf(top.node))
                                     - Len(top.resolvedChildren)]

\* The element the running code calls resolveRecursive on next: the root
\* at first, then the next child of the innermost active call.
NextCallee ==
    IF stack = <<>> THEN Root
    ELSE LET top == stack[Len(stack)]
         IN ChildrenOf(top.node)[Len(top.resolvedChildren) + 1]

CanEnter ==
    IF stack = <<>> THEN Root \notin DOMAIN prose
    ELSE LET top == stack[Len(stack)]
         IN Len(top.resolvedChildren) < Len(ChildrenOf(top.node))

\* Whether the innermost active call has built its prose element and awaits
\* post(proseElement).
PostPending ==
    /\ stack # <<>>
    /\ stack[Len(stack)].node \in DOMAIN prose

\* Entry of resolveRecursive(rawElement): pre(rawElement) is invoked and
\* awaited; resolvedChildren starts as the empty list the children loop
\* fills.
Enter ==
    /\ phase = "resolving"
    /\ CanEnter
    /\ LET n == NextCallee
       IN /\ hookLog' = Append(hookLog, <<"pre", n>>)
          /\ stack' = Append(stack, [node |-> n, resolvedChildren |-> <<>>])
    /\ UNCHANGED <<raw, parent, linkableArg, externalIds, phase, ids,
                   uniqueIds, scanned, uniques, prose>>
    /\ UNCHANGED outsideResolve

\* The prose element resolveRecursive builds for raw element n.
ProseElementOf(n, resolvedChildren, id) ==
    [schemaName |-> getSchema(raw[n].schemaName).name,
     data |-> raw[n].data,
     storageKey |-> raw[n].storageKey,
     hasChildren |-> ~ChildrenUndefined(n),
     children |-> resolvedChildren,
     id |-> id,
     uniqueName |-> IF Truthy(raw[n].uniqueName) THEN raw[n].uniqueName
                    ELSE Undef]

\* Variant: the element is recorded under its id instead of its name.
SetUniqueById(map, name, element) ==
    [k \in DOMAIN map \cup {kebabCase(name)} |->
        IF k = kebabCase(name) THEN element ELSE map[k]]

\* uniques[name] = proseElement
SetUnique(map, name, element) ==
    [k \in DOMAIN map \cup {name} |-> IF k = name THEN element ELSE map[k]]

\* resolveRecursive(rawElement) once every child is resolved: the prose
\* element is built, receives its id, is recorded in uniques, and
\* post(proseElement) is invoked and awaited.  A throw of createId rejects
\* the call.
Finish ==
    /\ phase = "resolving"
    /\ stack # <<>>
    /\ ~CanEnter
    /\ ~PostPending
    /\ LET top == stack[Len(stack)]
           n == top.node
           assign == ShouldAssignId(n)
           created == createId(ids, uniqueIds, raw[n])
       IN IF assign /\ created.threw
          THEN /\ phase' = "rejected"
               /\ UNCHANGED <<ids, externalIds, uniques, prose, hookLog>>
          ELSE /\ ids' = IF assign THEN created.ids ELSE ids
               /\ externalIds' = CallersSetAfter(ids')
               /\ prose' = prose @@
                      (n :> ProseElementOf(n, top.resolvedChildren,
                                IF assign THEN created.id ELSE Undef))
               /\ uniques' = IF Truthy(raw[n].uniqueName)
                             THEN SetUnique(uniques, raw[n].uniqueName, n)
                             ELSE uniques
               /\ hookLog' = Append(hookLog, <<"post", n>>)
               /\ phase' = phase
    /\ UNCHANGED <<raw, parent, linkableArg, uniqueIds, scanned, stack>>
    /\ UNCHANGED outsideResolve

\* post(proseElement) settles: resolveRecursive returns the element to its
\* caller, which pushes it to its resolvedChildren; at the root
\* resolveRawElement returns the result.
PostSettles ==
    /\ phase = "resolving"
    /\ PostPending
    /\ LET n == stack[Len(stack)].node
           rest == SubSeq(stack, 1, Len(stack) - 1)
       IN IF rest = <<>>
          THEN /\ stack' = rest
               /\ phase' = "done"
          ELSE /\ stack' = [rest EXCEPT ![Len(rest)].resolvedChildren
                                = PushResolved(@, n)]
               /\ phase' = phase
    /\ UNCHANGED <<raw, parent, linkableArg, externalIds, ids, uniqueIds,
                   scanned, uniques, prose, hookLog>>
    /\ UNCHANGED outsideResolve

\* Trees of n elements: element k > 1 hangs under an earlier element.
ParentVectors(n) ==
    { p \in [1..n -> 0..n] :
        /\ p[1] = 0
        /\ \A k \in 2..n : p[k] >= 1 /\ p[k] < k }

Init ==
    /\ \E n \in 1..MaxNodes :
         /\ raw \in [1..n -> ElementKinds]
         /\ parent \in ParentVectors(n)
    /\ linkableArg \in LinkableChoices
    /\ externalIds \in ExternalIdChoices
    /\ phase = "start"
    /\ ids = {}
    /\ uniqueIds = {}
    /\ scanned = 0
    /\ uniques = << >>
    /\ prose = << >>
    /\ stack = <<>>
    /\ hookLog = <<>>
    /\ FillIdle
    /\ TagIdle
    /\ DocumentIdle
    /\ WalkIdle
    /\ heap = << >>
    /\ UniqueIdle
    /\ RegistryIdle
    /\ NormalizeIdle

Next ==
    \/ Begin
    \/ CallerAdds
    \/ HookSettles
    \/ PreScanStep
    \/ Enter
    \/ Finish
    \/ PostSettles

Spec == Init /\ [][Next]_vars

\* ------------------------------------------------------------------------
\* fillStorage
\* ------------------------------------------------------------------------

\* Prose elements a tree handed to fillStorage is built from.
ProseKinds ==
    { [schemaName |-> "image", data |-> "cat", storageKey |-> "cat.jpg",
       id |-> Undef, uniqueName |-> Undef],
      [schemaName |-> "image", data |-> "dog", storageKey |-> "dog.jpg",
       id |-> Undef, uniqueName |-> Undef],
      [schemaName |-> "storagable", data |-> "info",
       storageKey |-> "info.txt", id |-> Undef, uniqueName |-> Undef],
      [schemaName |-> "image", data |-> "none", storageKey |-> "",
       id |-> Undef, uniqueName |-> Undef],
      [schemaName |-> "mix", data |-> Undef, storageKey |-> Undef,
       id |-> Undef, uniqueName |-> Undef] }

\* Keys and values a caller may have put into args.storage beforehand.
PresetKeys == {"cat.jpg", "dog.jpg"}

\* JavaScript values that are falsy.
FalsyValues == {"null"}

PresetValues == {"null", "preset"}

PresetStorages ==
    UNION { [keys -> PresetValues] : keys \in SUBSET PresetKeys }

\* args.storageCreators: the schema names that have a generator, as
\* returned by getStorageCreators for the registry items of the tests.
StorageCreatorSchemas == {"image"}

\* The value the generator of the image schema computes for an element.
createStorage(proseElement) == "storage:" \o proseElement.data

\* storage[storageKey] is truthy.
StorageTruthy(st, storageKey) ==
    storageKey \in DOMAIN st /\ st[storageKey] \notin FalsyValues

\* Variant: the generator is not looked up by schema name.
CallsGeneratorAnySchema(n, st) ==
    /\ Truthy(prose[n].storageKey)
    /\ ~StorageTruthy(st, prose[n].storageKey)

\* The conditions under which createStorageFor calls a generator:
\* storageKey && !storage[storageKey], and a generator for the schema.
CallsGenerator(n, st) ==
    /\ Truthy(prose[n].storageKey)
    /\ ~StorageTruthy(st, prose[n].storageKey)
    /\ prose[n].schemaName \in StorageCreatorSchemas

\* storage[storageKey] = value
StorageSet(st, storageKey, value) ==
    [k \in DOMAIN st \cup {storageKey} |->
        IF k = storageKey THEN value ELSE st[k]]

\* The children createStorageFor maps over.
FillChildren(n) == IF prose[n].hasChildren THEN prose[n].children ELSE <<>>

\* createStorageFor(n) up to its first await, with the storage st: either
\* the generator is called and the call waits for it, or the step callback
\* runs and createStorageFor is called on every child in turn before the
\* call waits for all of them.  run holds task, generatorCalls and stepLog.
RECURSIVE Launch(_, _, _), LaunchAll(_, _, _)
Launch(n, st, run) ==
    IF CallsGenerator(n, st)
    THEN [run EXCEPT !.task[n] = "generating",
                     !.generatorCalls =
                         Append(@, <<n, prose[n].storageKey>>)]
    ELSE LaunchAll(FillChildren(n), st,
                   [run EXCEPT !.task[n] = "passed",
                               !.stepLog = Append(@, n)])
LaunchAll(list, st, run) ==
    IF list = <<>> THEN run
    ELSE LaunchAll(Tail(list), st, Launch(Head(list), st, run))

\* fillStorage is called: createStorageFor(args.proseElement) runs to its
\* first await.
FillBegin ==
    /\ phase = "fill-start"
    /\ LET run == Launch(Root, storage,
                         [task |-> task, generatorCalls |-> generatorCalls,
                          stepLog |-> stepLog])
       IN /\ task' = run.task
          /\ generatorCalls' = run.generatorCalls
          /\ stepLog' = run.stepLog
    /\ phase' = "filling"
    /\ UNCHANGED <<parent, prose, storage, storageAtCall>>
    /\ UNCHANGED outsideFill

\* The generator called for element n settles: its value is written to
\* storage, the step callback runs and the children are started.
GeneratorSettles(n) ==
    /\ phase = "filling"
    /\ task[n] = "generating"
    /\ storage' = StorageSet(storage, prose[n].storageKey,
                             createStorage(prose[n]))
    /\ LET run == LaunchAll(FillChildren(n), storage',
                            [task |-> [task EXCEPT ![n] = "passed"],
                             generatorCalls |-> generatorCalls,
                             stepLog |-> Append(stepLog, n)])
       IN /\ task' = run.task
          /\ generatorCalls' = run.generatorCalls
          /\ stepLog' = run.stepLog
    /\ UNCHANGED <<parent, prose, phase, storageAtCall>>
    /\ UNCHANGED outsideFill

\* Every createStorageFor call has completed: fillStorage returns.
FillReturn ==
    /\ phase = "filling"
    /\ \A n \in DOMAIN task : task[n] = "passed"
    /\ phase' = "filled"
    /\ UNCHANGED <<parent, prose, storage, storageAtCall, task,
                   generatorCalls, stepLog>>
    /\ UNCHANGED outsideFill

InitFill ==
    /\ \E n \in 1..MaxNodes :
         /\ parent \in ParentVectors(n)
         /\ \E kinds \in [1..n -> ProseKinds] :
              prose = [k \in 1..n |->
                         [schemaName |-> kinds[k].schemaName,
                          data |-> kinds[k].data,
                          storageKey |-> kinds[k].storageKey,
                          hasChildren |-> ChildrenOf(k) # <<>>,
                          children |-> ChildrenOf(k),
                          id |-> Undef,
                          uniqueName |-> Undef]]
         /\ task = [k \in 1..n |-> "idle"]
    /\ storage \in PresetStorages
    /\ storageAtCall = storage
    /\ generatorCalls = <<>>
    /\ stepLog = <<>>
    /\ phase = "fill-start"
    /\ ResolveIdle
    /\ WalkIdle
    /\ TagIdle
    /\ DocumentIdle
    /\ heap = << >>
    /\ UniqueIdle
    /\ RegistryIdle
    /\ NormalizeIdle

NextFill ==
    \/ FillBegin
    \/ \E n \in DOMAIN task : GeneratorSettles(n)
    \/ FillReturn

SpecFill == InitFill /\ [][NextFill]_vars

\* ------------------------------------------------------------------------
\* walkElements
\* ------------------------------------------------------------------------

\* The largest tree walkElements is run on.
MaxWalkNodes == 4

\* What a step callback may return.
StepResults == {"undefined", "WalkNoDeeper", "WalkStop"}

\* Variant: the children are visited from the last to the first.
RECURSIVE Reversed(_)
Reversed(list) ==
    IF list = <<>> THEN <<>> ELSE Reversed(Tail(list)) \o <<Head(list)>>

WalkChildrenReversed(n) ==
    LET Present(c) == c \notin walkHoles
    IN Reversed(SelectSeq(ChildrenOf(n), Present))

\* children.filter(Boolean): the children of n that are elements.
WalkChildren(n) ==
    LET Present(c) == c \notin walkHoles
    IN SelectSeq(ChildrenOf(n), Present)

\* Variant: WalkNoDeeper does not keep the walk out of the children.
AfterStepNoDeeperDescends(result) ==
    IF result = "WalkStop" THEN "return WalkStop" ELSE "children"

\* What walkElements does with the result of step.
AfterStep(result) ==
    CASE result = "WalkStop" -> "return WalkStop"
      [] result = "WalkNoDeeper" -> "return"
      [] OTHER -> "children"

\* Variant: the result of the walk of a child is not looked at.
AfterChildIgnored(childResult) == "next"

\* What the loop over the children does with the result of a child's walk.
AfterChild(childResult) ==
    IF childResult = "WalkStop" THEN "return WalkStop" ELSE "next"

\* The innermost active call.
WalkTop == walkStack[Len(walkStack)]

\* The innermost call returns result to its caller: the outermost call
\* settles the walk, any other resumes the loop of its caller.
WalkReturns(result) ==
    LET rest == SubSeq(walkStack, 1, Len(walkStack) - 1)
    IN IF rest = <<>>
       THEN /\ walkStack' = rest
            /\ walkResult' = result
            /\ phase' = "walked"
       ELSE /\ walkStack' =
                  IF AfterChild(result) = "return WalkStop"
                  THEN [rest EXCEPT ![Len(rest)].pc = "stop"]
                  ELSE [rest EXCEPT ![Len(rest)].next = @ + 1]
            /\ UNCHANGED <<walkResult, phase>>

\* walkElements(element, step) is called on the root or on the next child
\* and invokes step(element).
WalkCall ==
    /\ phase = "walking"
    /\ \/ walkStack = <<>> /\ walkLog = <<>>
       \/ /\ walkStack # <<>>
          /\ WalkTop.pc = "loop"
          /\ WalkTop.next <= Len(WalkChildren(WalkTop.node))
    /\ LET element == IF walkStack = <<>> THEN Root
                      ELSE WalkChildren(WalkTop.node)[WalkTop.next]
       IN /\ walkStack' = Append(walkStack,
                              [node |-> element, pc |-> "step", next |-> 1])
          /\ walkLog' = Append(walkLog, element)
          /\ walkActive' = walkActive \cup {element}
    /\ UNCHANGED <<parent, phase, walkHoles, walkSignal, walkResult>>
    /\ UNCHANGED outsideWalk

\* The step invoked by the innermost call settles with a result.
WalkStepReturns ==
    /\ phase = "walking"
    /\ walkStack # <<>>
    /\ WalkTop.pc = "step"
    /\ \E result \in StepResults :
         /\ walkSignal' = walkSignal @@ (WalkTop.node :> result)
         /\ walkActive' = walkActive \ {WalkTop.node}
         /\ CASE AfterStep(result) = "return WalkStop" ->
                    WalkReturns("WalkStop")
              [] AfterStep(result) = "return" ->
                    WalkReturns("undefined")
              [] OTHER ->
                    /\ walkStack' = [walkStack EXCEPT
                                        ![Len(walkStack)].pc = "loop"]
                    /\ UNCHANGED <<walkResult, phase>>
    /\ UNCHANGED <<parent, walkHoles, walkLog>>
    /\ UNCHANGED outsideWalk

\* The loop over the children is through: the call returns undefined.
WalkLoopEnds ==
    /\ phase = "walking"
    /\ walkStack # <<>>
    /\ WalkTop.pc = "loop"
    /\ WalkTop.next > Len(WalkChildren(WalkTop.node))
    /\ WalkReturns("undefined")
    /\ UNCHANGED <<parent, walkHoles, walkLog, walkSignal, walkActive>>
    /\ UNCHANGED outsideWalk

\* The walk of a child returned WalkStop: the call returns WalkStop.
WalkStopReturns ==
    /\ phase = "walking"
    /\ walkStack # <<>>
    /\ WalkTop.pc = "stop"
    /\ WalkReturns("WalkStop")
    /\ UNCHANGED <<parent, walkHoles, walkLog, walkSignal, walkActive>>
    /\ UNCHANGED outsideWalk

InitWalk ==
    /\ \E n \in 1..MaxWalkNodes : parent \in ParentVectors(n)
    /\ walkHoles \in SUBSET { k \in DOMAIN parent :
                                k # Root /\ ChildrenOf(k) = <<>> }
    /\ walkStack = <<>>
    /\ walkLog = <<>>
    /\ walkSignal = << >>
    /\ walkActive = {}
    /\ walkResult = "pending"
    /\ phase = "walking"
    /\ prose = << >>
    /\ ResolveIdle
    /\ FillIdle
    /\ TagIdle
    /\ DocumentIdle
    /\ heap = << >>
    /\ UniqueIdle
    /\ RegistryIdle
    /\ NormalizeIdle

NextWalk == WalkCall \/ WalkStepReturns \/ WalkLoopEnds \/ WalkStopReturns

SpecWalk == InitWalk /\ [][NextWalk]_vars

\* ------------------------------------------------------------------------
\* hash: string to base62 hash (FNV-1a 32-bit seed, xorshift32 draws).
\* A string is the sequence of its char codes; an unsigned 32-bit number is
\* a pair of 16-bit halves [hi, lo].
\* ------------------------------------------------------------------------

ALPHABET ==
    << 48, 49, 50, 51, 52, 53, 54, 55, 56, 57,
       65, 66, 67, 68, 69, 70, 71, 72, 73, 74, 75, 76, 77,
       78, 79, 80, 81, 82, 83, 84, 85, 86, 87, 88, 89, 90,
       97, 98, 99, 100, 101, 102, 103, 104, 105, 106, 107, 108, 109,
       110, 111, 112, 113, 114, 115, 116, 117, 118, 119, 120, 121, 122 >>

ALPHABET_LEN == 62

Half == 65536

\* Bitwise exclusive or of two numbers below 2^bits.
RECURSIVE XorBits(_, _, _)
XorBits(a, b, bits) ==
    IF bits = 0 THEN 0
    ELSE ((a + b) % 2) + 2 * XorBits(a \div 2, b \div 2, bits - 1)

Xor32(x, y) == [hi |-> XorBits(x.hi, y.hi, 16), lo |-> XorBits(x.lo, y.lo, 16)]

\* (x << 13) >>> 0, x >>> 17 and (x << 5) >>> 0
ShiftLeft13(x) ==
    [hi |-> (x.hi * 8192 + x.lo \div 8) % Half, lo |-> (x.lo * 8192) % Half]
ShiftRight17(x) == [hi |-> 0, lo |-> x.hi \div 2]
ShiftLeft5(x) ==
    [hi |-> (x.hi * 32 + x.lo \div 2048) % Half, lo |-> (x.lo * 32) % Half]

\* h + (h << 1) + (h << 4) + (h << 7) + (h << 8) + (h << 24), modulo 2^32:
\* h times 403 plus h times 2^24.
FnvMultiply(h) ==
    LET low == h.lo * 403
    IN [hi |-> (h.hi * 403 + low \div Half + (h.lo % 256) * 256) % Half,
        lo |-> low % Half]

\* One round of fnv1a32: h ^= code, then the multiplication.
FnvRound(h, code) ==
    FnvMultiply([hi |-> h.hi, lo |-> XorBits(h.lo, code, 16)])

\* The rounds for the char codes str[from..to] in order, from the state h.
\* The range is taken by halves, the state after the first half being
\* computed before the second half is entered.
RECURSIVE FnvRange(_, _, _, _), FnvAfter(_, _, _, _)
FnvRange(h, str, from, to) ==
    IF from > to THEN h
    ELSE IF from = to THEN FnvRound(h, str[from])
    ELSE FnvAfter(FnvRange(h, str, from, (from + to) \div 2), str,
                  (from + to) \div 2 + 1, to)
FnvAfter(h, str, from, to) ==
    IF h.hi >= 0 THEN FnvRange(h, str, from, to) ELSE h

\* One round of fnv1a32 for every char code of str, from the state h.
FnvRounds(h, str) == FnvRange(h, str, 1, Len(str))

\* 0x811c9dc5, the FNV offset basis
FnvOffsetBasis == [hi |-> 33052, lo |-> 40389]

fnv1a32(str) == FnvRounds(FnvOffsetBasis, str)

\* The next state of the xorshift32 generator, which is also its output.
nextUint32(x) ==
    LET a == Xor32(x, ShiftLeft13(x))
        b == Xor32(a, ShiftRight17(a))
    IN Xor32(b, ShiftLeft5(b))

\* r >= acceptBound, where acceptBound = floor(2^32 / 62) * 62 = 2^32 - 4
Rejected(r) == r.hi = Half - 1 /\ r.lo >= Half - 4

\* r % ALPHABET_LEN, with 2^16 % 62 = 2
AlphabetIndex(r) == (2 * (r.hi % ALPHABET_LEN) + r.lo) % ALPHABET_LEN

\* The first draw from state x onwards that is not rejected.
RECURSIVE AcceptedDraw(_)
AcceptedDraw(x) ==
    LET r == nextUint32(x) IN IF Rejected(r) THEN AcceptedDraw(r) ELSE r

RECURSIVE HashChars(_, _)
HashChars(x, length) ==
    IF length = 0 THEN <<>>
    ELSE LET r == AcceptedDraw(x)
         IN <<ALPHABET[AlphabetIndex(r) + 1]>> \o HashChars(r, length - 1)

hash(input, length) ==
    LET seed == fnv1a32(input)
        x == IF seed.hi = 0 /\ seed.lo = 0 THEN [hi |-> 0, lo |-> 1] ELSE seed
    IN HashChars(x, length)

\* ------------------------------------------------------------------------
\* Raw element objects
\* ------------------------------------------------------------------------

\* A string value, as the sequence of its char codes, and the undefined
\* value of a data or hash field.
JsString(chars) == [type |-> "string", chars |-> chars]
JsUndefined == [type |-> "undefined"]

\* The char codes of the string literals that are hashed or held as a hash.
CharCodes(str) ==
    CASE str = "undefined" -> <<117, 110, 100, 101, 102, 105, 110, 101, 100>>
      [] str = "inliners" -> <<105, 110, 108, 105, 110, 101, 114, 115>>
      [] str = "mix" -> <<109, 105, 120>>
      [] str = "paragraph" -> <<112, 97, 114, 97, 103, 114, 97, 112, 104>>
      [] str = "test-bold" -> <<116, 101, 115, 116, 45, 98, 111, 108, 100>>
      [] str = "bold" -> <<98, 111, 108, 100>>
      [] str = "p-hash" -> <<112, 45, 104, 97, 115, 104>>
      [] str = "bold-hash" -> <<98, 111, 108, 100, 45, 104, 97, 115, 104>>
      [] str = "changed" -> <<99, 104, 97, 110, 103, 101, 100>>

\* No object.
NullAddr == 0

\* The raw elements that exist before the calls under study: a paragraph
\* carrying the unique name myUnique with one text child, a text element,
\* a bold element and a plain paragraph.
SourceHeap ==
    << [schemaName |-> "paragraph", tagName |-> "P", data |-> JsUndefined,
        hash |-> JsString(CharCodes("p-hash")), slug |-> Undef, uniqueName |-> "myUnique",
        hasChildren |-> TRUE, children |-> <<2>>],
       [schemaName |-> "text", tagName |-> "pure-text",
        data |-> JsString(<<120>>), hash |-> JsString(hash(<<120>>, 12)),
        slug |-> Undef, uniqueName |-> Undef,
        hasChildren |-> FALSE, children |-> <<>>],
       [schemaName |-> "text", tagName |-> "pure-text",
        data |-> JsString(<<84>>), hash |-> JsString(hash(<<84>>, 12)),
        slug |-> Undef, uniqueName |-> Undef,
        hasChildren |-> FALSE, children |-> <<>>],
       [schemaName |-> "bold", tagName |-> "Bold", data |-> JsUndefined,
        hash |-> JsString(CharCodes("bold-hash")), slug |-> Undef, uniqueName |-> Undef,
        hasChildren |-> FALSE, children |-> <<>>],
       [schemaName |-> "paragraph", tagName |-> "P", data |-> JsUndefined,
        hash |-> JsString(CharCodes("p-hash")), slug |-> Undef, uniqueName |-> Undef,
        hasChildren |-> FALSE, children |-> <<>>] >>

\* ------------------------------------------------------------------------
\* defineUnique
\* ------------------------------------------------------------------------

\* The most assignments to rawElement in one behaviour.
MaxAssignments == 3

\* unique.tag.tagName of the uniques that are defined.
UniqueTagName == [myUnique |-> "P", myOther |-> "Bold"]

DefinedUniques == DOMAIN UniqueTagName

\* The raw elements that are assigned to uniques.
AssignedElements == {1, 4, 5}

\* Variant: a unique that holds a raw element takes another one.
rawElementSetAgain(u, value) ==
    IF heap[value].tagName # UniqueTagName[u]
    THEN [threw |-> TRUE, rawElement |-> uniqueRaw[u]]
    ELSE [threw |-> FALSE, rawElement |-> value]

\* set rawElement(value) with the objects of heap h: the outcome and the
\* new _rawElement of unique u.
rawElementSetOn(h, u, value) ==
    IF uniqueRaw[u] # NullAddr
    THEN [threw |-> TRUE, rawElement |-> uniqueRaw[u]]
    ELSE IF h[value].tagName # UniqueTagName[u]
    THEN [threw |-> TRUE, rawElement |-> uniqueRaw[u]]
    ELSE [threw |-> FALSE, rawElement |-> value]

\* set rawElement(value) for a raw element that exists already.
rawElementSet(u, value) == rawElementSetOn(heap, u, value)

\* unique.rawElement = value
UniqueAssign ==
    /\ phase = "uniques"
    /\ Len(uniqueLog) < MaxAssignments
    /\ \E u \in DefinedUniques, value \in AssignedElements :
         LET outcome == rawElementSet(u, value)
         IN /\ uniqueRaw' = [uniqueRaw EXCEPT ![u] = outcome.rawElement]
            /\ uniqueLog' = Append(uniqueLog,
                                [unique |-> u, value |-> value,
                                 threw |-> outcome.threw])
    /\ UNCHANGED outsideUnique

InitUnique ==
    /\ heap = SourceHeap
    /\ uniqueRaw = [u \in DefinedUniques |-> NullAddr]
    /\ uniqueLog = <<>>
    /\ phase = "uniques"
    /\ parent = << >>
    /\ prose = << >>
    /\ ResolveIdle
    /\ FillIdle
    /\ TagIdle
    /\ DocumentIdle
    /\ WalkIdle
    /\ RegistryIdle
    /\ NormalizeIdle

NextUnique == UniqueAssign

SpecUnique == InitUnique /\ [][NextUnique]_vars

\* ------------------------------------------------------------------------
\* Registry
\* ------------------------------------------------------------------------

\* The most items passed to one call of addItems or setItems.
MaxItemsPerCall == 2

\* defineRegistryItem({ schema, tags }): the schema, and the tags keyed by
\* tag name. Schemas and tags of different items are different objects.
defineRegistryItem(key, schemaName, tagNames) ==
    [key |-> key,
     schema |-> [name |-> schemaName, of |-> key],
     tags |-> [t \in tagNames |->
                 [tagName |-> t, schemaName |-> schemaName, of |-> key]]]

\* textSchema, inlinersSchema, mixSchema registered without tags.
DefaultItems ==
    << defineRegistryItem("textItem", "text", {}),
       defineRegistryItem("inlinersItem", "inliners", {}),
       defineRegistryItem("mixItem", "mix", {}) >>

\* The items the calls are made with: the third has the schema name of the
\* first and a tag name of the second.
CustomItems ==
    { defineRegistryItem("paragraphItem", "paragraph", {"P"}),
      defineRegistryItem("boldItem", "bold", {"Bold", "B"}),
      defineRegistryItem("paragraphAlt", "paragraph", {"Bold", "Para"}) }

\* The items and schemas removeItem is called with.
RemovedItems == CustomItems \cup {DefaultItems[3]}

\* The lists of at most n items.
ItemLists(n) == UNION { [1..k -> CustomItems] : k \in 0..n }

\* A map without key k, and a map with key k set to v.
MapDelete(map, k) == [x \in DOMAIN map \ {k} |-> map[x]]
MapSet(map, k, v) == [x \in DOMAIN map \cup {k} |-> IF x = k THEN v ELSE map[x]]

\* Variant: the tag names of the item are not looked up before it is added.
addItemTagsUnchecked(reg, item) ==
    IF item.schema.name \in DOMAIN reg.items
    THEN [threw |-> TRUE, items |-> reg.items, tags |-> reg.tags]
    ELSE [threw |-> FALSE,
          items |-> MapSet(reg.items, item.schema.name, item),
          tags |-> [t \in DOMAIN reg.tags \cup DOMAIN item.tags |->
                      IF t \in DOMAIN item.tags THEN item.tags[t]
                      ELSE reg.tags[t]]]

\* addItem(item) on the maps reg: the outcome and the maps after the call.
addItem(reg, item) ==
    IF item.schema.name \in DOMAIN reg.items
    THEN [threw |-> TRUE, items |-> reg.items, tags |-> reg.tags]
    ELSE IF \E t \in DOMAIN item.tags : t \in DOMAIN reg.tags
    THEN [threw |-> TRUE, items |-> reg.items, tags |-> reg.tags]
    ELSE [threw |-> FALSE,
          items |-> MapSet(reg.items, item.schema.name, item),
          tags |-> [t \in DOMAIN reg.tags \cup DOMAIN item.tags |->
                      IF t \in DOMAIN item.tags THEN item.tags[t]
                      ELSE reg.tags[t]]]

\* addItems(...items): addItem for every item in order; the first failure
\* ends the call and keeps what was added before it.
RECURSIVE addItems(_, _)
addItems(reg, list) ==
    IF list = <<>>
    THEN [threw |-> FALSE, items |-> reg.items, tags |-> reg.tags]
    ELSE LET first == addItem(reg, Head(list))
         IN IF first.threw THEN first ELSE addItems(first, Tail(list))

setDefaultItems(reg) == addItems(reg, DefaultItems)

\* Variant: the tag map is not cleared.
setItemsTagsKept(reg, list) ==
    LET defaults == setDefaultItems([items |-> << >>, tags |-> reg.tags])
    IN IF defaults.threw THEN defaults ELSE addItems(defaults, list)

\* setItems(...items): both maps cleared, the defaults set, the items added.
setItems(reg, list) ==
    LET defaults == setDefaultItems([items |-> << >>, tags |-> << >>])
    IN IF defaults.threw THEN defaults ELSE addItems(defaults, list)

\* removeItem(arg), arg a registry item or a schema.
removeItem(reg, arg) ==
    LET found == arg.kind = "item" \/ arg.schema.name \in DOMAIN reg.items
        item == IF arg.kind = "item" THEN arg.item
                ELSE reg.items[arg.schema.name]
    IN IF ~found
       THEN [threw |-> FALSE, items |-> reg.items, tags |-> reg.tags]
       ELSE [threw |-> FALSE,
             items |-> MapDelete(reg.items, item.schema.name),
             tags |-> [t \in DOMAIN reg.tags \ DOMAIN item.tags |->
                         reg.tags[t]]]

\* getSchema(schemaName) and getTag(tagName) on the registry.
RegistryGetSchema(schemaName) ==
    IF schemaName \in DOMAIN regItems
    THEN [threw |-> FALSE, value |-> regItems[schemaName].schema]
    ELSE [threw |-> TRUE, value |-> Undef]

RegistryGetTag(tagName) ==
    IF tagName \in DOMAIN regTags
    THEN [threw |-> FALSE, value |-> regTags[tagName]]
    ELSE [threw |-> TRUE, value |-> Undef]

Registry == [items |-> regItems, tags |-> regTags]

\* A call is through: the maps are as it left them, and the call is noted
\* together with the maps it found.
RegistryCall(op, arg, outcome) ==
    /\ regItems' = outcome.items
    /\ regTags' = outcome.tags
    /\ regLast' = [op |-> op, arg |-> arg, threw |-> outcome.threw,
                   items |-> regItems, tags |-> regTags]
    /\ UNCHANGED outsideRegistry

RegistryAddItem ==
    /\ phase = "registry"
    /\ \E item \in CustomItems :
         RegistryCall("addItem", <<item>>, addItem(Registry, item))

RegistryAddItems ==
    /\ phase = "registry"
    /\ \E list \in ItemLists(MaxItemsPerCall) :
         RegistryCall("addItems", list, addItems(Registry, list))

RegistrySetItems ==
    /\ phase = "registry"
    /\ \E list \in ItemLists(MaxItemsPerCall) :
         RegistryCall("setItems", list, setItems(Registry, list))

RegistryRemoveItem ==
    /\ phase = "registry"
    /\ \E item \in RemovedItems :
         \/ RegistryCall("removeItem", <<item>>,
                removeItem(Registry, [kind |-> "item", item |-> item]))
         \/ RegistryCall("removeItem", <<item.schema>>,
                removeItem(Registry, [kind |-> "schema",
                                      schema |-> item.schema]))

\* new Registry()
InitRegistry ==
    /\ LET defaults == setDefaultItems([items |-> << >>, tags |-> << >>])
       IN /\ regItems = defaults.items
          /\ regTags = defaults.tags
          /\ regLast = [op |-> "constructor", arg |-> <<>>,
                        threw |-> defaults.threw,
                        items |-> << >>, tags |-> << >>]
    /\ phase = "registry"
    /\ parent = << >>
    /\ prose = << >>
    /\ heap = << >>
    /\ ResolveIdle
    /\ FillIdle
    /\ TagIdle
    /\ DocumentIdle
    /\ WalkIdle
    /\ UniqueIdle
    /\ NormalizeIdle

NextRegistry ==
    \/ RegistryAddItem
    \/ RegistryAddItems
    \/ RegistrySetItems
    \/ RegistryRemoveItem

SpecRegistry == InitRegistry /\ [][NextRegistry]_vars

\* ------------------------------------------------------------------------
\* normalizeChildren
\* ------------------------------------------------------------------------

\* The longest children array.
MaxChildren == 3

\* The values passed as children: two strings, a number, the text element
\* and the paragraph of the heap, a unique and a unique without raw element.
ChildValues ==
    { [type |-> "string", chars |-> <<65>>],
      [type |-> "string", chars |-> <<66>>],
      [type |-> "number", value |-> 42],
      [type |-> "raw", addr |-> 3],
      [type |-> "raw", addr |-> 1],
      [type |-> "unique", name |-> "myUnique"],
      [type |-> "unique", name |-> "myOther"] }

\* The children argument: undefined, one value, or an array of values.
ChildrenArgs ==
    {[kind |-> "undefined"]}
        \cup { [kind |-> "single", item |-> v] : v \in ChildValues }
        \cup { [kind |-> "array", items |-> list] :
                 list \in UNION { [1..k -> ChildValues] : k \in 0..MaxChildren } }

\* Array.isArray(children) ? children : [children]
childrenArray(children) ==
    IF children.kind = "array" THEN children.items ELSE <<children.item>>

\* The decimal digits of a natural number, as char codes.
RECURSIVE Digits(_)
Digits(n) ==
    IF n < 10 THEN <<48 + n>> ELSE Digits(n \div 10) \o <<48 + (n % 10)>>

\* String(child) for a child that is neither a raw element nor a unique.
StringOf(child) ==
    IF child.type = "string" THEN child.chars ELSE Digits(child.value)

\* Variant: the clone keeps the children of the element it was made from.
deepCloneRawElementShallow(h, a) ==
    [heap |-> Append(h, h[a]), addr |-> Len(h) + 1]

\* deepCloneRawElement(element) for the element at address a of heap h:
\* the heap with the new objects and the address of the clone.
RECURSIVE deepCloneRawElement(_, _)
deepCloneRawElement(h, a) ==
    LET CloneAll[i \in 0..Len(h[a].children)] ==
            IF i = 0 THEN [heap |-> h, addrs |-> <<>>]
            ELSE LET clone == deepCloneRawElement(CloneAll[i - 1].heap,
                                                  h[a].children[i])
                 IN [heap |-> clone.heap,
                     addrs |-> Append(CloneAll[i - 1].addrs, clone.addr)]
        cloned == CloneAll[Len(h[a].children)]
    IN [heap |-> Append(cloned.heap, [h[a] EXCEPT !.children = cloned.addrs]),
        addr |-> Len(cloned.heap) + 1]

\* Variant: the clone of the raw element of a unique keeps its uniqueName.
anonymizeNamed(element) == [element EXCEPT !.slug = element.uniqueName]

\* clone.slug = clone.uniqueName; delete clone.uniqueName
anonymize(element) ==
    [element EXCEPT !.slug = element.uniqueName, !.uniqueName = Undef]

\* The text element made of a stringified child.
jsxText(strChild) ==
    [schemaName |-> "text", tagName |-> "pure-text",
     data |-> JsString(strChild), hash |-> JsString(hash(strChild, 12)),
     slug |-> Undef, uniqueName |-> Undef,
     hasChildren |-> FALSE, children |-> <<>>]

\* Variant: the hash of the element merged into is left as it was.
mergeTextStaleHash(lastNormalized, strChild) ==
    [lastNormalized EXCEPT
        !.data = JsString(lastNormalized.data.chars \o strChild)]

\* lastNormalized.data += strChild, and its hash computed anew.
mergeText(lastNormalized, strChild) ==
    [lastNormalized EXCEPT
        !.data = JsString(lastNormalized.data.chars \o strChild),
        !.hash = JsString(hash(lastNormalized.data.chars \o strChild, 12))]

\* One round of the loop over childrenArray, from the heap and the list
\* of normalized children reached so far.
normalizeChild(acc, child) ==
    IF acc.threw THEN acc
    ELSE IF child.type = "raw"
    THEN LET clone == deepCloneRawElement(acc.heap, child.addr)
         IN [threw |-> FALSE, heap |-> clone.heap,
             list |-> Append(acc.list, clone.addr)]
    ELSE IF child.type = "unique"
    THEN IF uniqueRaw[child.name] = NullAddr
         THEN [threw |-> TRUE, heap |-> acc.heap, list |-> acc.list]
         ELSE LET clone == deepCloneRawElement(acc.heap,
                                               uniqueRaw[child.name])
              IN [threw |-> FALSE,
                  heap |-> [clone.heap EXCEPT
                              ![clone.addr] = anonymize(@)],
                  list |-> Append(acc.list, clone.addr)]
    ELSE LET strChild == StringOf(child)
             last == IF acc.list = <<>> THEN NullAddr
                     ELSE acc.list[Len(acc.list)]
         IN IF last # NullAddr /\ acc.heap[last].schemaName = "text"
            THEN [threw |-> FALSE,
                  heap |-> [acc.heap EXCEPT
                              ![last] = mergeText(@, strChild)],
                  list |-> acc.list]
            ELSE [threw |-> FALSE,
                  heap |-> Append(acc.heap, jsxText(strChild)),
                  list |-> Append(acc.list, Len(acc.heap) + 1)]

\* normalizeChildren(children) on heap h.
normalizeChildren(h, children) ==
    IF children.kind = "undefined"
    THEN [threw |-> FALSE, defined |-> FALSE, heap |-> h, list |-> <<>>]
    ELSE LET items == childrenArray(children)
             Loop[i \in 0..Len(items)] ==
                 IF i = 0 THEN [threw |-> FALSE, heap |-> h, list |-> <<>>]
                 ELSE normalizeChild(Loop[i - 1], items[i])
             done == Loop[Len(items)]
         IN [threw |-> done.threw, defined |-> ~done.threw,
             heap |-> IF done.threw THEN h ELSE done.heap,
             list |-> IF done.threw THEN <<>> ELSE done.list]

\* The call of normalizeChildren.
Normalize ==
    /\ phase = "normalize-start"
    /\ LET result == normalizeChildren(heap, childrenArg)
       IN /\ heap' = result.heap
          /\ normalized' = [defined |-> result.defined, list |-> result.list]
          /\ phase' = IF result.threw THEN "normalize-threw"
                      ELSE "normalized"
    /\ UNCHANGED childrenArg
    /\ UNCHANGED outsideNormalize

\* The objects reached from the addresses of list through children.
RECURSIVE Reach(_, _)
Reach(h, list) ==
    IF list = <<>> THEN {}
    ELSE {Head(list)} \cup Reach(h, h[Head(list)].children)
             \cup Reach(h, Tail(list))

SourceObjects == DOMAIN SourceHeap

OutputObjects == Reach(heap, normalized.list)

\* An object after its holder has changed every field of it.
Mutated ==
    [schemaName |-> "changed", tagName |-> "changed",
     data |-> JsString(<<33>>), hash |-> JsString(CharCodes("changed")), slug |-> "changed",
     uniqueName |-> "changed", hasChildren |-> FALSE, children |-> <<>>]

\* The caller changes one of the elements it passed in, or a nested child
\* of one.
MutateSource ==
    /\ phase = "normalized"
    /\ \E a \in SourceObjects : heap' = [heap EXCEPT ![a] = Mutated]
    /\ phase' = "mutated"
    /\ UNCHANGED <<childrenArg, normalized>>
    /\ UNCHANGED outsideNormalize

\* The holder of the result changes one of the returned elements, or a
\* nested child of one.
MutateOutput ==
    /\ phase = "normalized"
    /\ \E a \in OutputObjects : heap' = [heap EXCEPT ![a] = Mutated]
    /\ phase' = "mutated"
    /\ UNCHANGED <<childrenArg, normalized>>
    /\ UNCHANGED outsideNormalize

InitNormalize ==
    /\ heap = SourceHeap
    /\ \E bound \in {1, 5} :
         uniqueRaw = [u \in DefinedUniques |->
                        IF u = "myUnique" THEN bound ELSE NullAddr]
    /\ uniqueLog = <<>>
    /\ childrenArg \in ChildrenArgs
    /\ normalized = [defined |-> FALSE, list |-> <<>>]
    /\ phase = "normalize-start"
    /\ parent = << >>
    /\ prose = << >>
    /\ ResolveIdle
    /\ FillIdle
    /\ TagIdle
    /\ DocumentIdle
    /\ WalkIdle
    /\ RegistryIdle

NextNormalize == Normalize \/ MutateSource \/ MutateOutput

SpecNormalize == InitNormalize /\ [][NextNormalize]_vars

\* ------------------------------------------------------------------------
\* defineTag and Fragment
\* ------------------------------------------------------------------------

\* The longest children array passed to a tag.
MaxTagChildren == 2

\* schema.type of the schema of a registry item.
SchemaType(schema) ==
    IF schema.of \in {"textItem", "inlinersItem", "boldItem"}
    THEN "inliner"
    ELSE "block"

\* The tags that are invoked: the built-in Inliners and Mix, the tags P and
\* Bold of the registry items, and boldTag, a tag named Bold over the
\* inliner schema test-bold, which is not linkable, whose processTag takes
\* the children as they are. ensure names the check processTag makes on the
\* children.
TagDefinitions ==
    [Inliners |-> [tagName |-> "Inliners", schemaName |-> "inliners",
                   type |-> "inliner", linkable |-> FALSE,
                   ensure |-> "inliner-children"],
     Mix |-> [tagName |-> "Mix", schemaName |-> "mix", type |-> "block",
              linkable |-> FALSE, ensure |-> "children"],
     P |-> [tagName |-> "P", schemaName |-> "paragraph", type |-> "block",
            linkable |-> TRUE, ensure |-> "text-children"],
     Bold |-> [tagName |-> "Bold", schemaName |-> "bold",
               type |-> "inliner", linkable |-> TRUE,
               ensure |-> "inliner-children"],
     boldTag |-> [tagName |-> "Bold", schemaName |-> "test-bold",
                  type |-> "inliner", linkable |-> FALSE,
                  ensure |-> "nothing"]]

paragraphRegistryItem == defineRegistryItem("paragraphItem", "paragraph", {"P"})
boldRegistryItem == defineRegistryItem("boldItem", "bold", {"Bold"})

\* The item lists the registry passed to the tags was set with.
TagRegistryLists == { <<>>, <<paragraphRegistryItem, boldRegistryItem>> }

\* The values passed as children of a tag: a string, the text, bold and
\* paragraph elements of the heap, and a unique.
TagChildValues ==
    { [type |-> "string", chars |-> <<65>>],
      [type |-> "raw", addr |-> 3],
      [type |-> "raw", addr |-> 4],
      [type |-> "raw", addr |-> 5],
      [type |-> "unique", name |-> "myUnique"] }

TagChildrenArgs ==
    {[kind |-> "undefined"]}
        \cup { [kind |-> "single", item |-> v] : v \in TagChildValues }
        \cup { [kind |-> "array", items |-> list] :
                 list \in UNION { [1..k -> TagChildValues] :
                                    k \in 0..MaxTagChildren } }

\* props: the children, the unique given as $ and whether the registry
\* is there.
TagProps ==
    [children : TagChildrenArgs,
     unique : {"none"} \cup DefinedUniques,
     registryProp : BOOLEAN]

\* Variant: the step lets a block child of an inliner tag through.
tagStepThrowsOnMissingSchema(def, child) ==
    RegistryGetSchema(child.schemaName).threw

\* The step passed to normalizeChildren throws on this child.
tagStepThrows(def, child) ==
    LET childSchema == RegistryGetSchema(child.schemaName)
    IN \/ childSchema.threw
       \/ /\ def.type = "inliner"
          /\ SchemaType(childSchema.value) = "block"

\* The outcome of normalizeChildren once the step has been called on the
\* children it made: result is what the call gives without a step.
stepApplied(h, def, result) ==
    IF result.threw THEN result
    ELSE IF \E k \in 1..Len(result.list) :
               tagStepThrows(def, result.heap[result.list[k]])
    THEN [threw |-> TRUE, defined |-> FALSE, heap |-> h, list |-> <<>>]
    ELSE result

\* normalizeChildren(props.children, step): the step is called on every
\* child as it is made and changes nothing.
normalizeChildrenStep(h, children, def) ==
    stepApplied(h, def, normalizeChildren(h, children))

\* draftElement('raw-prose', schema) with schemaName and tagName: the
\* element has no data, no children and no hash yet.
draftElement(def) ==
    [schemaName |-> def.schemaName, tagName |-> def.tagName,
     data |-> JsUndefined, hash |-> JsUndefined,
     slug |-> Undef, uniqueName |-> Undef,
     hasChildren |-> FALSE, children |-> <<>>]

\* JSON.stringify(value) appended to a string, for a value that is a string
\* without characters to escape, or undefined.
stringified(value) ==
    IF value.type = "undefined" THEN CharCodes("undefined")
    ELSE <<34>> \o value.chars \o <<34>>

\* list.join(): the strings of the list with commas between them, an
\* undefined entry giving the empty string.
RECURSIVE joined(_)
joined(list) ==
    IF list = <<>> THEN <<>>
    ELSE LET first == IF Head(list).type = "undefined" THEN <<>>
                      ELSE Head(list).chars
         IN IF Len(list) = 1 THEN first
            ELSE first \o <<44>> \o joined(Tail(list))

\* The hash of the finished element: hash of schema.name, the stringified
\* data and the stringified join of the hashes of the children, or of
\* undefined when the element has no children.
elementHash(h, element) ==
    hash(CharCodes(element.schemaName)
             \o stringified(element.data)
             \o stringified(
                    IF element.hasChildren
                    THEN JsString(joined(
                             [k \in 1..Len(element.children) |->
                                 h[element.children[k]].hash]))
                    ELSE JsUndefined),
         12)

\* The element of processTag's doing: the children as they were normalized,
\* undefined when none were given.
processed(element, children) ==
    [element EXCEPT !.hasChildren = children.defined,
                    !.children = children.list]

\* processTag throws: ensureTagChildren, ensureTagChildren with textSchema,
\* ensureTagInlinerChildren, or no check at all.
processTagThrows(def, h, children) ==
    CASE def.ensure = "nothing" -> FALSE
      [] def.ensure = "children" -> ~children.defined
      [] def.ensure = "text-children" ->
            \/ ~children.defined
            \/ \E k \in 1..Len(children.list) :
                   h[children.list[k]].schemaName # "text"
      [] def.ensure = "inliner-children" ->
            \/ ~children.defined
            \/ \E k \in 1..Len(children.list) :
                   LET childSchema ==
                           RegistryGetSchema(h[children.list[k]].schemaName)
                   IN \/ childSchema.threw
                      \/ SchemaType(childSchema.value) # "inliner"

\* A tag invocation that throws before the unique is assigned to.
tagFail ==
    [threw |-> TRUE, heap |-> heap, uniqueRaw |-> uniqueRaw,
     element |-> NullAddr, assigned |-> <<>>]

\* processTag and what follows it: drafted is the heap with the element at
\* address, bound the uniques and assigned the assignment made.
tagProcess(def, children, drafted, address, bound, assigned) ==
    IF processTagThrows(def, drafted, children)
    THEN [threw |-> TRUE, heap |-> drafted, uniqueRaw |-> bound,
          element |-> NullAddr, assigned |-> assigned]
    ELSE [threw |-> FALSE,
          heap |-> [drafted EXCEPT
                      ![address] =
                          [processed(drafted[address], children) EXCEPT
                              !.hash = JsString(elementHash(
                                           drafted,
                                           processed(drafted[address],
                                                     children)))]],
          uniqueRaw |-> bound,
          element |-> address,
          assigned |-> assigned]

\* unique.rawElement = element: setter is what the assignment gives.
tagAssign(def, props, children, drafted, address, setter) ==
    IF setter.threw
    THEN [tagFail EXCEPT
             !.assigned = << [unique |-> props.unique, value |-> address,
                              threw |-> TRUE] >>]
    ELSE tagProcess(def, children, drafted, address,
                    [uniqueRaw EXCEPT ![props.unique] = setter.rawElement],
                    << [unique |-> props.unique, value |-> address,
                        threw |-> FALSE] >>)

\* The element is drafted and, when $ is given, named and assigned to the
\* unique; then processTag runs.
tagDraft(def, props, children, address) ==
    IF props.unique = "none"
    THEN tagProcess(def, children, Append(children.heap, draftElement(def)),
                    address, uniqueRaw, <<>>)
    ELSE IF ~def.linkable THEN tagFail
    ELSE tagAssign(def, props, children,
                   Append(children.heap,
                          [draftElement(def) EXCEPT
                              !.uniqueName = props.unique]),
                   address,
                   rawElementSetOn(
                       Append(children.heap,
                              [draftElement(def) EXCEPT
                                  !.uniqueName = props.unique]),
                       props.unique, address))

\* The tag once the children are normalized.
tagChildren(def, props, children) ==
    IF children.threw THEN tagFail
    ELSE tagDraft(def, props, children, Len(children.heap) + 1)

\* The function tag(props) made by defineTag for the definition def: the
\* outcome, the heap and the uniques after the call, the element returned
\* and the assignment made to unique.rawElement.
tag(def, props) ==
    IF ~props.registryProp THEN tagFail
    ELSE tagChildren(def, props,
                     normalizeChildrenStep(heap, props.children, def))

\* Fragment(props): the Inliners tag, and the Mix tag when that throws.
firstReturned(first, second) == IF ~first.threw THEN first ELSE second

Fragment(props) ==
    firstReturned(tag(TagDefinitions.Inliners, props),
                  tag(TagDefinitions.Mix, props))

\* A call is through: heap and uniques are as it left them, and the call
\* is noted together with the uniques it found.
TagReturns(name, props, outcome) ==
    /\ heap' = outcome.heap
    /\ uniqueRaw' = outcome.uniqueRaw
    /\ uniqueLog' = uniqueLog \o outcome.assigned
    /\ tagCall' = [tag |-> name, props |-> props, threw |-> outcome.threw,
                   element |-> outcome.element, uniqueRaw |-> uniqueRaw]
    /\ phase' = IF outcome.threw THEN "tag-threw" ELSE "tag-returned"
    /\ UNCHANGED outsideTag

\* A tag is invoked with props.
TagInvoke ==
    /\ phase = "tag-start"
    /\ \E name \in DOMAIN TagDefinitions, props \in TagProps :
         TagReturns(name, props, tag(TagDefinitions[name], props))

\* <>...</>
FragmentInvoke ==
    /\ phase = "tag-start"
    /\ \E props \in TagProps :
         /\ props.unique = "none"
         /\ TagReturns("Fragment", props, Fragment(props))

InitTag ==
    /\ heap = SourceHeap
    /\ \E first \in {NullAddr, 1}, second \in {NullAddr, 4} :
         uniqueRaw = [u \in DefinedUniques |->
                        IF u = "myUnique" THEN first ELSE second]
    /\ uniqueLog = <<>>
    /\ \E list \in TagRegistryLists :
         LET reg == setItems([items |-> << >>, tags |-> << >>], list)
         IN /\ regItems = reg.items
            /\ regTags = reg.tags
            /\ regLast = [op |-> "setItems", arg |-> list,
                          threw |-> reg.threw,
                          items |-> << >>, tags |-> << >>]
    /\ tagCall = << >>
    /\ phase = "tag-start"
    /\ parent = << >>
    /\ prose = << >>
    /\ ResolveIdle
    /\ FillIdle
    /\ WalkIdle
    /\ NormalizeIdle
    /\ DocumentIdle

NextTag == TagInvoke \/ FragmentInvoke

SpecTag == InitTag /\ [][NextTag]_vars

\* ------------------------------------------------------------------------
\* defineDocument
\* ------------------------------------------------------------------------

\* The most calls of defineDocument in one behaviour.
MaxDocuments == 3

\* The most calls of the finalizer of a document.
MaxFinalizations == 1

\* The most tags the content function of a document invokes.
MaxContentTags == 2

\* `__JSPROSE_DOCUMENT_ID_${n}__`
AutoDocumentId(n) == "__JSPROSE_DOCUMENT_ID_" \o ToString(n) \o "__"

\* The first argument of defineDocument: no id, or an explicit id.
DocumentIdArgs == {Undef, "doc", AutoDocumentId(1)}

\* definition.uniques, by the names declared.
DeclaredUniques == { {}, {"myUnique"}, {"myUnique", "myOther"} }

\* tryAddDocumentId(documentId): the outcome, the id returned, and the id
\* set and the counter after the call.
tryAddDocumentId(documentId) ==
    IF documentId = Undef
    THEN [threw |-> FALSE,
          finalId |-> AutoDocumentId(autoIdCounter),
          ids |-> docIds \cup {AutoDocumentId(autoIdCounter)},
          counter |-> autoIdCounter + 1]
    ELSE IF documentId \in docIds
    THEN [threw |-> TRUE, finalId |-> Undef,
          ids |-> docIds, counter |-> autoIdCounter]
    ELSE [threw |-> FALSE, finalId |-> documentId,
          ids |-> docIds \cup {documentId}, counter |-> autoIdCounter]

\* The code that calls defineDocument is running.
DocumentPhases ==
    {"document", "isolated", "isolated-async", "func-fulfilled",
     "func-rejected", "cleaned-fulfilled", "cleaned-rejected"}

\* defineDocument(documentId, definition): the id is taken and the uniques
\* of the definition are made, without raw elements.
DefineDocument ==
    /\ phase \in DocumentPhases
    /\ Len(docLog) < MaxDocuments
    /\ \E documentId \in DocumentIdArgs, declared \in DeclaredUniques :
         LET added == tryAddDocumentId(documentId)
         IN /\ docIds' = added.ids
            /\ autoIdCounter' = added.counter
            /\ docLog' = Append(docLog,
                            [arg |-> documentId, threw |-> added.threw,
                             documentId |-> added.finalId,
                             uniques |-> declared,
                             ids |-> docIds, counter |-> autoIdCounter,
                             idsAfter |-> added.ids,
                             counterAfter |-> added.counter])
            /\ IF added.threw
               THEN UNCHANGED <<uniqueRaw, uniqueLog>>
               ELSE /\ uniqueRaw' = [u \in DefinedUniques |-> NullAddr]
                    /\ uniqueLog' = <<>>
    /\ UNCHANGED <<phase, heap, finalLog, registryVars>>
    /\ UNCHANGED outsideDocument

\* The documents defined so far, and the one defined last.
DefinedDocuments == { k \in 1..Len(docLog) : ~docLog[k].threw }

CurrentDocument ==
    CHOOSE k \in DefinedDocuments : \A other \in DefinedDocuments : other <= k

\* finalizeDocument(contentFunction) of the document defined last: the
\* content function is called.
FinalizeBegin ==
    /\ phase = "document"
    /\ DefinedDocuments # {}
    /\ Len(finalLog) < MaxFinalizations
    /\ finalLog' = Append(finalLog, [document |-> CurrentDocument,
                                     state |-> "content", tags |-> 0])
    /\ phase' = "content"
    /\ UNCHANGED <<heap, uniqueVars, docIds, autoIdCounter, docLog,
                   registryVars>>
    /\ UNCHANGED outsideDocument

\* The call of finalizeDocument that is in progress.
Finalizing == finalLog[Len(finalLog)]

\* The children of the tags of the content function: the text element of
\* the heap.
ContentChildren == [kind |-> "single", item |-> [type |-> "raw", addr |-> 3]]

\* A tag invoked by the content function is through; when it threw, so do
\* the content function and finalizeDocument.
ContentTagReturns(name, props, outcome) ==
    /\ heap' = outcome.heap
    /\ uniqueRaw' = outcome.uniqueRaw
    /\ uniqueLog' = uniqueLog \o outcome.assigned
    /\ tagCall' = [tag |-> name, props |-> props, threw |-> outcome.threw,
                   element |-> outcome.element, uniqueRaw |-> uniqueRaw]
    /\ finalLog' = [finalLog EXCEPT
                      ![Len(finalLog)] =
                          [@ EXCEPT
                             !.tags = @ + 1,
                             !.state = IF outcome.threw THEN "threw"
                                       ELSE "content"]]
    /\ phase' = IF outcome.threw THEN "document" ELSE "content"
    /\ UNCHANGED <<docIds, autoIdCounter, docLog, registryVars>>
    /\ UNCHANGED <<resolveVars, fillVars, walkVars, parent, prose,
                   normalizeVars>>

\* The props of a tag of the content function. A tag invoked through jsx
\* receives the registry as __JSPROSERegistry, which the tag does not read:
\* it has no registry prop. A tag the content function calls itself is
\* given __JSPROSE_registryProp.
ContentProps(unique, throughJsx) ==
    [children |-> ContentChildren, unique |-> unique,
     registryProp |-> ~throughJsx]

\* The content function invokes a tag, with a unique of the document or
\* without, through jsx or by calling it.
ContentTag ==
    /\ phase = "content"
    /\ Finalizing.tags < MaxContentTags
    /\ \E name \in {"P", "Bold"},
          unique \in {"none"} \cup docLog[Finalizing.document].uniques,
          throughJsx \in BOOLEAN :
         ContentTagReturns(name, ContentProps(unique, throughJsx),
                           tag(TagDefinitions[name],
                               ContentProps(unique, throughJsx)))

\* Variant: the uniques are not looked at after the content function.
finalizeThrowsNever(declared) == FALSE

\* The loop of finalizeDocument over the uniques throws.
finalizeThrows(declared) == \E u \in declared : uniqueRaw[u] = NullAddr

\* The content function returns: finalizeDocument looks at the uniques and
\* returns the document or throws.
ContentReturns ==
    /\ phase = "content"
    /\ finalLog' = [finalLog EXCEPT
                      ![Len(finalLog)].state =
                          IF finalizeThrows(docLog[Finalizing.document].uniques)
                          THEN "threw"
                          ELSE "returned"]
    /\ phase' = "document"
    /\ UNCHANGED <<heap, uniqueVars, docIds, autoIdCounter, docLog,
                   registryVars>>
    /\ UNCHANGED outsideDocument

\* The registry set to the paragraph and bold items; no tag was invoked.
DocumentRegistry ==
    /\ LET list == <<paragraphRegistryItem, boldRegistryItem>>
           reg == setItems([items |-> << >>, tags |-> << >>], list)
       IN /\ regItems = reg.items
          /\ regTags = reg.tags
          /\ regLast = [op |-> "setItems", arg |-> list, threw |-> reg.threw,
                        items |-> << >>, tags |-> << >>]
    /\ heap = SourceHeap
    /\ uniqueRaw = [u \in DefinedUniques |-> NullAddr]
    /\ uniqueLog = <<>>
    /\ tagCall = << >>
    /\ phase = "document"
    /\ parent = << >>
    /\ prose = << >>
    /\ ResolveIdle
    /\ FillIdle
    /\ WalkIdle
    /\ NormalizeIdle

\* The module's singleton as it is made.
InitDocument ==
    /\ docIds = {}
    /\ autoIdCounter = 1
    /\ docLog = <<>>
    /\ finalLog = <<>>
    /\ DocumentRegistry

NextDocument == DefineDocument

SpecDocument == InitDocument /\ [][NextDocument]_vars

\* defineDocument was called on the singleton as it is made, with an id or
\* without, and returned the finalizer.
InitFinalize ==
    /\ \E documentId \in DocumentIdArgs, declared \in DeclaredUniques :
         LET finalId == IF documentId = Undef THEN AutoDocumentId(1)
                        ELSE documentId
             counter == IF documentId = Undef THEN 2 ELSE 1
         IN /\ docIds = {finalId}
            /\ autoIdCounter = counter
            /\ docLog = << [arg |-> documentId, threw |-> FALSE,
                            documentId |-> finalId,
                            uniques |-> declared,
                            ids |-> {}, counter |-> 1,
                            idsAfter |-> {finalId},
                            counterAfter |-> counter] >>
    /\ finalLog = <<>>
    /\ DocumentRegistry

NextFinalize ==
    \/ FinalizeBegin
    \/ ContentTag
    \/ ContentReturns

SpecFinalize == InitFinalize /\ [][NextFinalize]_vars

\* ------------------------------------------------------------------------
\* isolateProse
\* ------------------------------------------------------------------------

\* func, or a callback that runs while the promise returned by
\* isolateProse is pending, calls PROSE_REGISTRY.setItems(...items).
FuncSetItems ==
    /\ phase \in DocumentPhases \ {"document"}
    /\ \E list \in ItemLists(1) :
         RegistryCall("setItems", list, setItems(Registry, list))

\* What isolateProse and its func leave alone besides the registry, the
\* document ids and the position.
IsolateUnchanged ==
    /\ UNCHANGED <<autoIdCounter, docLog, finalLog>>
    /\ UNCHANGED <<resolveVars, fillVars, walkVars, parent, prose, heap,
                   uniqueVars, normalizeVars, tagVars>>

\* PROSE_REGISTRY.setItems(); PROSE_SINGLETON.document.ids.clear()
IsolateCleans ==
    LET reset == setItems(Registry, <<>>)
    IN /\ regItems' = reset.items
       /\ regTags' = reset.tags
       /\ regLast' = [op |-> "setItems", arg |-> <<>>, threw |-> reset.threw,
                      items |-> regItems, tags |-> regTags]
       /\ docIds' = {}
       /\ IsolateUnchanged

\* func returned a value that is no promise: isolateProse cleans up and
\* returns.
FuncReturns ==
    /\ phase = "isolated"
    /\ IsolateCleans
    /\ phase' = "isolate-returned"

\* func threw: the exception leaves isolateProse at the call of func.
FuncThrows ==
    /\ phase = "isolated"
    /\ phase' = "isolate-threw"
    /\ UNCHANGED <<docIds, registryVars>>
    /\ IsolateUnchanged

\* func returned a promise: isolateProse returns result.finally(...), and
\* the code of func that follows its first await runs later.
FuncReturnsPromise ==
    /\ phase = "isolated"
    /\ phase' = "isolated-async"
    /\ UNCHANGED <<docIds, registryVars>>
    /\ IsolateUnchanged

\* The promise of func is fulfilled or rejected. The reactions registered
\* on it run in the order they were registered, those of func before the
\* finally callback.
PromiseSettles ==
    /\ phase = "isolated-async"
    /\ phase' \in {"func-fulfilled", "func-rejected"}
    /\ UNCHANGED <<docIds, registryVars>>
    /\ IsolateUnchanged

\* The finally callback runs and cleans up; the promise returned by
\* isolateProse is still pending.
FinallyRuns ==
    /\ phase \in {"func-fulfilled", "func-rejected"}
    /\ IsolateCleans
    /\ phase' = IF phase = "func-fulfilled" THEN "cleaned-fulfilled"
                ELSE "cleaned-rejected"

\* The promise returned by isolateProse settles the way the promise of
\* func did.
ReturnedPromiseSettles ==
    /\ phase \in {"cleaned-fulfilled", "cleaned-rejected"}
    /\ phase' = IF phase = "cleaned-fulfilled" THEN "isolate-resolved"
                ELSE "isolate-rejected"
    /\ UNCHANGED <<docIds, registryVars>>
    /\ IsolateUnchanged

\* isolateProse(func) is called on the singleton as the module makes it, and
\* has called func.
InitIsolate ==
    /\ docIds = {}
    /\ autoIdCounter = 1
    /\ docLog = <<>>
    /\ finalLog = <<>>
    /\ heap = SourceHeap
    /\ uniqueRaw = [u \in DefinedUniques |-> NullAddr]
    /\ uniqueLog = <<>>
    /\ LET defaults == setDefaultItems([items |-> << >>, tags |-> << >>])
       IN /\ regItems = defaults.items
          /\ regTags = defaults.tags
          /\ regLast = [op |-> "constructor", arg |-> <<>>,
                        threw |-> defaults.threw,
                        items |-> << >>, tags |-> << >>]
    /\ tagCall = << >>
    /\ phase = "isolated"
    /\ parent = << >>
    /\ prose = << >>
    /\ ResolveIdle
    /\ FillIdle
    /\ WalkIdle
    /\ NormalizeIdle

NextIsolate ==
    \/ DefineDocument
    \/ FuncSetItems
    \/ FuncReturns
    \/ FuncThrows
    \/ FuncReturnsPromise
    \/ PromiseSettles
    \/ FinallyRuns
    \/ ReturnedPromiseSettles

SpecIsolate == InitIsolate /\ [][NextIsolate]_vars

\* ------------------------------------------------------------------------
\* Properties of resolveRawElement
\* ------------------------------------------------------------------------

\* resolveRawElement has returned its result.
Resolved == phase = "done"

\* Raw element n carries a unique name.
Anchored(n) == Truthy(raw[n].uniqueName)

\* Element n of the resolved tree has an id.
HasId(n) == n \in DOMAIN prose /\ prose[n].id # Undef

\* The k-th candidate of the sequence base, base-1, base-2, ...
Candidate(base, k) == IF k = 0 THEN base ELSE base \o "-" \o ToString(k)

\* Position of element n in document order.
DocPos(n) == CHOOSE i \in 1..Len(PreOrder(Root)) : PreOrder(Root)[i] = n

\* C1: when linkable is false or absent, no prose element ever has an id,
\* whatever its schema, slug or unique name.
C1_NoIdsUnlessLinkable ==
    ~linkable => \A n \in DOMAIN prose : prose[n].id = Undef

C1_Witness ==
    /\ Resolved
    /\ ~linkable
    /\ \E n, m \in Nodes :
         /\ getSchema(raw[n].schemaName).linkable /\ Anchored(n)
         /\ getSchema(raw[m].schemaName).linkable /\ Truthy(raw[m].slug)
         /\ ~Anchored(m)

\* C2: after a successful resolve with linkable = true no two elements of
\* the prose tree have the same id, and the id of an element without unique
\* name is neither a supplied id nor the id of a unique of the tree.
C2_IdsUnique ==
    (Resolved /\ linkable) =>
        /\ \A n, m \in Nodes : (HasId(n) /\ HasId(m) /\ n # m)
                                  => prose[n].id # prose[m].id
        /\ \A n \in Nodes : (HasId(n) /\ ~Anchored(n)) =>
              /\ prose[n].id \notin NewSet(externalIds)
              /\ \A m \in Nodes :
                    Anchored(m) =>
                        prose[n].id # uniqueName2Id(raw[m].uniqueName)

C2_Witness ==
    /\ Resolved
    /\ linkable
    /\ externalIds.given
    /\ \E n, m \in Nodes :
         /\ HasId(n) /\ ~Anchored(n) /\ prose[n].id = "my-unique-2"
         /\ HasId(m) /\ Anchored(m) /\ prose[m].id = "my-unique"

\* C3: with linkable = true a linkable element carrying unique name N has
\* exactly kebabCase(N) as id, and an element without unique name whose
\* base id is kebabCase(N) has a suffixed id, also when it precedes the
\* unique in document order.
C3_UniqueIdNeverSuffixed ==
    (Resolved /\ linkable) =>
        \A n \in Nodes : (Anchored(n) /\ ShouldAssignId(n)) =>
            /\ prose[n].id = kebabCase(raw[n].uniqueName)
            /\ \A m \in Nodes :
                  ( /\ ~Anchored(m)
                    /\ ShouldAssignId(m)
                    /\ BaseId(raw[m]) = kebabCase(raw[n].uniqueName) )
                  => \E k \in 1..(Cardinality(ids) + 1) :
                        prose[m].id = Candidate(BaseId(raw[m]), k)

C3_Witness ==
    /\ Resolved
    /\ linkable
    /\ \E n, m \in Nodes :
         /\ Anchored(n) /\ ShouldAssignId(n)
         /\ ~Anchored(m) /\ ShouldAssignId(m)
         /\ BaseId(raw[m]) = kebabCase(raw[n].uniqueName)
         /\ DocPos(m) < DocPos(n)
         /\ prose[m].id = "my-unique-1"
         /\ prose[n].id = "my-unique"

\* The id given to an element without unique name is the first candidate
\* of base, base-1, ... reserved in neither ids nor uniqueIds at that time.
FirstFreeCandidate ==
    \A n \in DOMAIN prose' \ DOMAIN prose :
        (prose'[n].id # Undef /\ ~Anchored(n)) =>
            \E k \in 0..Cardinality(ids \cup uniqueIds) :
                /\ prose'[n].id = Candidate(BaseId(raw[n]), k)
                /\ Candidate(BaseId(raw[n]), k) \notin ids \cup uniqueIds
                /\ \A j \in 0..(k - 1) :
                      Candidate(BaseId(raw[n]), j) \in ids \cup uniqueIds

\* The children of p without unique name that receive an id and have the
\* slug of child c, in sibling order.
SameSlugSiblings(p, c) ==
    LET Same(d) == /\ ~Anchored(d)
                   /\ ShouldAssignId(d)
                   /\ raw[d].slug = raw[c].slug
    IN SelectSeq(ChildrenOf(p), Same)

\* The siblings have base, base-1, ..., base-(k-1) in sibling order.
SiblingsNumberedInOrder(p, c) ==
    LET same == SameSlugSiblings(p, c)
    IN \A i \in 1..Len(same) :
          prose[same[i]].id = Candidate(BaseId(raw[c]), i - 1)

\* None of base, ..., base-(k-1) is a supplied id, the id of a unique of the
\* tree or the id of an element other than the siblings.
CandidatesOtherwiseFree(p, c) ==
    LET same == SameSlugSiblings(p, c)
        cands == { Candidate(BaseId(raw[c]), i - 1) : i \in 1..Len(same) }
        members == { same[i] : i \in 1..Len(same) }
    IN /\ cands \cap NewSet(externalIds) = {}
       /\ cands \cap uniqueIds = {}
       /\ \A n \in Nodes \ members : HasId(n) => prose[n].id \notin cands

SlugSibling(p, c) ==
    /\ c \in Nodes /\ c # Root /\ parent[c] = p
    /\ Truthy(raw[c].slug) /\ ~Anchored(c) /\ ShouldAssignId(c)

\* C4 as stated: first free candidate, hence k siblings with the same slug
\* always receive base, base-1, ..., base-(k-1) in sibling order.
C4_Original ==
    /\ [][FirstFreeCandidate]_vars
    /\ [](Resolved =>
            \A p, c \in Nodes :
                SlugSibling(p, c) => SiblingsNumberedInOrder(p, c))

\* C4: the id of an element without unique name is the first candidate of
\* base, base-1, ... not yet reserved; k siblings with the same slug
\* receive base, base-1, ..., base-(k-1) in sibling order when none of these
\* ids is a supplied id, the id of a unique or the id of another element.
C4_FirstFreeInOrder ==
    /\ [][FirstFreeCandidate]_vars
    /\ [](Resolved =>
            \A p, c \in Nodes :
                (SlugSibling(p, c) /\ CandidatesOtherwiseFree(p, c))
                    => SiblingsNumberedInOrder(p, c))

C4_Witness ==
    /\ Resolved
    /\ \E p, c, d \in Nodes :
         /\ SlugSibling(p, c) /\ SlugSibling(p, d)
         /\ c < d
         /\ raw[c].slug = raw[d].slug
         /\ CandidatesOtherwiseFree(p, c)
         /\ prose[c].id = "my-unique"
         /\ prose[d].id = "my-unique-1"

\* Two elements carry unique names with the same id, or the id of a unique
\* name is among the supplied ids.
UniqueIdCollision ==
    \/ \E n, m \in Nodes :
         /\ n # m /\ Anchored(n) /\ Anchored(m)
         /\ uniqueName2Id(raw[n].uniqueName) = uniqueName2Id(raw[m].uniqueName)
    \/ \E n \in Nodes :
         /\ Anchored(n)
         /\ uniqueName2Id(raw[n].uniqueName) \in NewSet(externalIds)

\* C5: with linkable = true a tree with colliding unique ids is rejected and
\* no result is returned.
C5_CollisionRejected ==
    (linkable /\ UniqueIdCollision) => ~Resolved

\* The set of ids of the elements of the prose tree.
ProseIds == { prose[n].id : n \in { m \in DOMAIN prose : prose[m].id # Undef } }

\* C6: the returned ids is the supplied set united with the ids of the
\* prose tree, and no step of resolveRawElement modifies the caller's set
\* object.
C6_ReturnedIds ==
    /\ [](Resolved => ids = NewSet(externalIds) \cup ProseIds)
    /\ [][CallerAdds \/ externalIds' = externalIds]_vars

C6_Witness ==
    /\ Resolved
    /\ linkable
    /\ externalIds.given
    /\ ProseIds # {}
    /\ ids # externalIds.members

\* Names of the uniques carried by the raw tree.
UniqueNames == { raw[n].uniqueName : n \in { m \in Nodes : Anchored(m) } }

\* The order in which resolveRecursive completes the elements of the
\* subtree of n: children left to right, then the element.
RECURSIVE PostOrder(_), PostOrderAll(_)
PostOrder(n) == PostOrderAll(ChildrenOf(n)) \o <<n>>
PostOrderAll(list) ==
    IF list = <<>> THEN <<>>
    ELSE PostOrder(Head(list)) \o PostOrderAll(Tail(list))

PostPos(n) == CHOOSE i \in 1..Len(PostOrder(Root)) : PostOrder(Root)[i] = n

\* The element carrying unique name N that is completed last.
LastCarrier(N) ==
    CHOOSE n \in Nodes :
        /\ raw[n].uniqueName = N
        /\ \A m \in Nodes : raw[m].uniqueName = N => PostPos(m) <= PostPos(n)

\* C7 as stated: uniques holds under N the prose element of every raw
\* element carrying N, and has no other key.
C7_Original ==
    Resolved =>
        /\ \A n \in Nodes : Anchored(n) =>
              /\ raw[n].uniqueName \in DOMAIN uniques
              /\ uniques[raw[n].uniqueName] = n
              /\ prose[n].uniqueName = raw[n].uniqueName
        /\ DOMAIN uniques = UniqueNames

\* C7: the keys of uniques are the unique names of the raw tree; under N it
\* holds the prose element of the raw element carrying N, of the one
\* completed last when several elements carry N, and every prose element
\* made from a raw element carrying N has uniqueName N.
C7_UniquesMap ==
    Resolved =>
        /\ DOMAIN uniques = UniqueNames
        /\ \A N \in UniqueNames : uniques[N] = LastCarrier(N)
        /\ \A n \in Nodes : Anchored(n)
                               => prose[n].uniqueName = raw[n].uniqueName
        /\ \A n \in Nodes : ~Anchored(n) => prose[n].uniqueName = Undef

C7_Witness ==
    /\ Resolved
    /\ \E n, m \in Nodes :
         /\ n # m
         /\ Anchored(n)
         /\ raw[m].uniqueName = raw[n].uniqueName
         /\ uniques[raw[n].uniqueName] = n
    /\ \E n \in Nodes : ~Anchored(n)

\* C8: the prose tree has the shape of the raw tree: same schemaName, data
\* and storageKey, children in the same number and order, undefined
\* children stay undefined.
C8_SameShape ==
    Resolved =>
        /\ DOMAIN prose = Nodes
        /\ \A n \in Nodes :
              /\ prose[n].schemaName = raw[n].schemaName
              /\ prose[n].data = raw[n].data
              /\ prose[n].storageKey = raw[n].storageKey
              /\ prose[n].children = ChildrenOf(n)
              /\ prose[n].hasChildren = ~ChildrenUndefined(n)

C8_Witness ==
    /\ Resolved
    /\ Len(ChildrenOf(Root)) = 2
    /\ \E n \in Nodes : ChildrenUndefined(n) /\ Truthy(raw[n].storageKey)
    /\ \E n \in Nodes : ChildrenOf(n) = <<>> /\ ~ChildrenUndefined(n)

\* ------------------------------------------------------------------------
\* Properties of fillStorage
\* ------------------------------------------------------------------------

\* fillStorage has completed.
Filled == phase = "filled"

\* Number of generator calls made for a storage key.
CallsFor(storageKey) ==
    Cardinality({ i \in 1..Len(generatorCalls) :
                    generatorCalls[i][2] = storageKey })

\* C9: every key present in storage when fillStorage is called still has
\* its original value when fillStorage completes, whatever the value.
C9_PresetKept ==
    Filled => \A k \in DOMAIN storageAtCall :
                  k \in DOMAIN storage /\ storage[k] = storageAtCall[k]

\* C10: within one fillStorage call the generator is called at most once
\* per storage key.
C10_AtMostOncePerKey ==
    \A k \in { prose[n].storageKey : n \in DOMAIN prose } : CallsFor(k) <= 1

\* The elements that have a non-empty storageKey and a generator registered
\* under their schema name.
GeneratedElements ==
    { n \in DOMAIN prose :
        /\ prose[n].storageKey # Undef
        /\ prose[n].storageKey # ""
        /\ prose[n].schemaName \in StorageCreatorSchemas }

\* C11: when fillStorage completes the keys of storage are the keys present
\* before the call plus the storage keys of the elements that have a
\* non-empty storageKey and a generator; other elements add no key and no
\* generator is ever called for them.
C11_KeySet ==
    /\ Filled =>
          DOMAIN storage =
              DOMAIN storageAtCall
                  \cup { prose[n].storageKey : n \in GeneratedElements }
    /\ \A i \in 1..Len(generatorCalls) :
          generatorCalls[i][1] \in GeneratedElements

C11_Witness ==
    /\ Filled
    /\ DOMAIN storageAtCall # {}
    /\ DOMAIN storage # DOMAIN storageAtCall
    /\ \E n \in DOMAIN prose :
         prose[n].schemaName = "storagable" /\ prose[n].storageKey = "info.txt"
    /\ \E n \in DOMAIN prose : prose[n].storageKey = ""

\* ------------------------------------------------------------------------
\* Properties of walkElements
\* ------------------------------------------------------------------------

\* The walk has returned.
Walked == phase = "walked"

\* The elements of the tree in document order, falsy slots left out.
ElementsInOrder ==
    LET Present(c) == c \notin walkHoles
    IN SelectSeq(PreOrder(Root), Present)

IsPrefix(a, b) == Len(a) <= Len(b) /\ SubSeq(b, 1, Len(a)) = a

\* No step has returned a signal so far.
NoSignalGiven ==
    \A n \in DOMAIN walkSignal : walkSignal[n] = "undefined"

\* Some step has returned WalkStop.
StopGiven == \E n \in DOMAIN walkSignal : walkSignal[n] = "WalkStop"

WalkedElements == { walkLog[i] : i \in 1..Len(walkLog) }

\* C12: when step returns no signal it is invoked exactly once on every
\* element in pre-order, children left to right; a step and the walk of the
\* whole subtree are complete before step is invoked on the next sibling,
\* and no two step invocations are in progress at once.
C12_PreOrderOneAtATime ==
    /\ Cardinality(walkActive) <= 1
    /\ walkLog # <<>> => walkActive \subseteq {walkLog[Len(walkLog)]}
    /\ WalkedElements = DOMAIN walkSignal \cup walkActive
    /\ NoSignalGiven => IsPrefix(walkLog, ElementsInOrder)
    /\ (Walked /\ NoSignalGiven) => walkLog = ElementsInOrder

C12_Witness ==
    /\ Walked
    /\ NoSignalGiven
    /\ Len(walkLog) >= 3
    /\ \E n \in DOMAIN parent : Len(ChildrenOf(n)) >= 2
    /\ walkHoles # {}

\* C13: once step has returned WalkStop, step is never invoked again and
\* the outermost call returns WalkStop; when step never returns WalkStop
\* the outermost call returns undefined.
C13_StopEndsWalk ==
    /\ [][StopGiven => walkLog' = walkLog]_vars
    /\ [](Walked =>
            walkResult = IF StopGiven THEN "WalkStop" ELSE "undefined")

C13_Witness ==
    /\ Walked
    /\ walkResult = "WalkStop"
    /\ \E n, m \in DOMAIN parent :
         /\ n # Root /\ parent[n] # Root
         /\ n \in DOMAIN walkSignal /\ walkSignal[n] = "WalkStop"
         /\ m # Root /\ m > n /\ m \notin walkHoles /\ m \notin WalkedElements

\* The ancestors of element n.
RECURSIVE AncestorsOf(_)
AncestorsOf(n) ==
    IF n = Root THEN {} ELSE {parent[n]} \cup AncestorsOf(parent[n])

\* The order of the walk when the elements whose step returned
\* WalkNoDeeper had no children.
RECURSIVE PrunedOrder(_), PrunedOrderAll(_)
PrunedOrder(n) ==
    IF n \in walkHoles THEN <<>>
    ELSE IF n \in DOMAIN walkSignal /\ walkSignal[n] = "WalkNoDeeper"
    THEN <<n>>
    ELSE <<n>> \o PrunedOrderAll(ChildrenOf(n))
PrunedOrderAll(list) ==
    IF list = <<>> THEN <<>>
    ELSE PrunedOrder(Head(list)) \o PrunedOrderAll(Tail(list))

\* C14: when step returns WalkNoDeeper on an element, step is invoked on
\* none of its descendants, the walk goes on as if the element had no
\* children, and the walk does not return WalkStop because of it.
C14_NoDeeperSkipsSubtree ==
    /\ \A n \in DOMAIN walkSignal :
          walkSignal[n] = "WalkNoDeeper" =>
              \A d \in WalkedElements : n \notin AncestorsOf(d)
    /\ IsPrefix(walkLog, PrunedOrder(Root))
    /\ (Walked /\ ~StopGiven) =>
          /\ walkLog = PrunedOrder(Root)
          /\ walkResult = "undefined"

C14_Witness ==
    /\ Walked
    /\ ~StopGiven
    /\ \E n, m \in DOMAIN parent :
         /\ n \in DOMAIN walkSignal /\ walkSignal[n] = "WalkNoDeeper"
         /\ WalkChildren(n) # <<>>
         /\ m # Root /\ n # Root /\ parent[m] = parent[n] /\ m > n
         /\ m \in WalkedElements

\* ------------------------------------------------------------------------
\* Properties of defineUnique
\* ------------------------------------------------------------------------

\* The assignment made by the step, when the step is an assignment.
AssignmentMade == Len(uniqueLog') = Len(uniqueLog) + 1
LastAssignment == uniqueLog'[Len(uniqueLog')]

\* C15: a unique is unbound until the first assignment of a raw element
\* whose tagName equals the tag of the unique, which binds it; an
\* assignment of a raw element with another tagName fails and leaves it
\* unbound; every assignment to a bound unique fails and leaves the bound
\* raw element in place; a bound unique never becomes unbound.
C15_BindOnce ==
    [][\A u \in DefinedUniques :
          /\ uniqueRaw[u] # NullAddr => uniqueRaw'[u] = uniqueRaw[u]
          /\ (AssignmentMade /\ LastAssignment.unique # u) =>
                uniqueRaw'[u] = uniqueRaw[u]
          /\ (AssignmentMade /\ LastAssignment.unique = u) =>
                IF uniqueRaw[u] # NullAddr
                THEN LastAssignment.threw
                ELSE IF heap[LastAssignment.value].tagName = UniqueTagName[u]
                THEN /\ ~LastAssignment.threw
                     /\ uniqueRaw'[u] = LastAssignment.value
                ELSE /\ LastAssignment.threw
                     /\ uniqueRaw'[u] = NullAddr]_vars

C15_Witness ==
    /\ Len(uniqueLog) = 3
    /\ uniqueLog[1] = [unique |-> "myUnique", value |-> 4, threw |-> TRUE]
    /\ uniqueLog[2] = [unique |-> "myUnique", value |-> 5, threw |-> FALSE]
    /\ uniqueLog[3] = [unique |-> "myUnique", value |-> 1, threw |-> TRUE]
    /\ uniqueRaw["myUnique"] = 5
    /\ uniqueRaw["myOther"] = NullAddr

\* ------------------------------------------------------------------------
\* Properties of Registry
\* ------------------------------------------------------------------------

\* The schema names and tag names of the built-ins, which have no tags.
BuiltInNames == { DefaultItems[i].schema.name : i \in 1..Len(DefaultItems) }

LastCallIs(op) == regLast.op = op

\* C16: addItem fails when the schema name of the item or one of its tag
\* names is already registered, and a failed addItem leaves both maps as
\* they were; after a successful addItem getSchema(name) returns the schema
\* of the item and getTag(tagName) returns each of its tags.
C16_AddItem ==
    LastCallIs("addItem") =>
        LET item == regLast.arg[1]
        IN /\ item.schema.name \in DOMAIN regLast.items => regLast.threw
           /\ (\E t \in DOMAIN item.tags : t \in DOMAIN regLast.tags) =>
                 regLast.threw
           /\ regLast.threw =>
                 /\ regItems = regLast.items
                 /\ regTags = regLast.tags
           /\ ~regLast.threw =>
                 /\ RegistryGetSchema(item.schema.name) =
                       [threw |-> FALSE, value |-> item.schema]
                 /\ \A t \in DOMAIN item.tags :
                       RegistryGetTag(t) =
                           [threw |-> FALSE, value |-> item.tags[t]]

\* An addItem that failed on a tag name alone, of an item with two tags.
C16_Witness ==
    /\ LastCallIs("addItem")
    /\ regLast.threw
    /\ regLast.arg[1].key = "paragraphAlt"
    /\ "paragraph" \notin DOMAIN regLast.items
    /\ "Bold" \in DOMAIN regTags
    /\ regTags["Bold"].of = "boldItem"
    /\ "Para" \notin DOMAIN regTags

\* C17: after a successful setItems(items) the registry holds the three
\* built-in schemas and the given items with their tags and nothing else:
\* the custom schemas and tags registered before are gone (getSchema and
\* getTag fail) and the built-ins removed before are back.
C17_SetItems ==
    (LastCallIs("setItems") /\ ~regLast.threw) =>
        LET given == { regLast.arg[i] : i \in 1..Len(regLast.arg) }
            givenSchemas == { item.schema.name : item \in given }
            givenTags == UNION { DOMAIN item.tags : item \in given }
        IN /\ DOMAIN regItems = BuiltInNames \cup givenSchemas
           /\ \A i \in 1..Len(DefaultItems) :
                 regItems[DefaultItems[i].schema.name] = DefaultItems[i]
           /\ \A item \in given :
                 /\ regItems[item.schema.name] = item
                 /\ \A t \in DOMAIN item.tags : regTags[t] = item.tags[t]
           /\ DOMAIN regTags = givenTags
           /\ \A name \in DOMAIN regLast.items \ (BuiltInNames \cup givenSchemas) :
                 RegistryGetSchema(name).threw
           /\ \A t \in DOMAIN regLast.tags \ givenTags :
                 RegistryGetTag(t).threw

\* A setItems that found a custom item and no mix schema, and was given
\* another item.
C17_Witness ==
    /\ LastCallIs("setItems")
    /\ ~regLast.threw
    /\ Len(regLast.arg) = 1
    /\ regLast.arg[1].key = "paragraphItem"
    /\ "bold" \in DOMAIN regLast.items
    /\ "B" \in DOMAIN regLast.tags
    /\ "mix" \notin DOMAIN regLast.items
    /\ "mix" \in DOMAIN regItems

\* ------------------------------------------------------------------------
\* Properties of normalizeChildren
\* ------------------------------------------------------------------------

\* normalizeChildren has returned and nothing was changed since.
Normalized == phase = "normalized"

\* A child that is a raw element or a unique, and the raw element it
\* stands for.
IsElementChild(child) == child.type \in {"raw", "unique"}
ElementOf(child) ==
    IF child.type = "raw" THEN child.addr ELSE uniqueRaw[child.name]

\* The children the call is to return, one entry for every raw element or
\* unique and one for every maximal run of other values, with the
\* concatenation of the string forms of the run.
RECURSIVE RunsAndElements(_)
RunsAndElements(list) ==
    IF list = <<>> THEN <<>>
    ELSE LET rest == RunsAndElements(Tail(list))
         IN IF IsElementChild(Head(list))
            THEN <<[text |-> FALSE, input |-> Head(list), suffix |-> <<>>]>>
                     \o rest
            ELSE IF rest # <<>> /\ rest[1].text
            THEN <<[text |-> TRUE,
                    chars |-> StringOf(Head(list)) \o rest[1].chars]>>
                     \o Tail(rest)
            ELSE <<[text |-> TRUE, chars |-> StringOf(Head(list))]>> \o rest

\* The same, except that a run that directly follows an element of the
\* text schema has no entry of its own and is a suffix of that element.
RECURSIVE RunsMergedIntoText(_)
RunsMergedIntoText(list) ==
    IF list = <<>> THEN <<>>
    ELSE LET rest == RunsMergedIntoText(Tail(list))
         IN IF IsElementChild(Head(list))
            THEN IF /\ SourceHeap[ElementOf(Head(list))].schemaName = "text"
                    /\ rest # <<>>
                    /\ rest[1].text
                 THEN <<[text |-> FALSE, input |-> Head(list),
                         suffix |-> rest[1].chars]>> \o Tail(rest)
                 ELSE <<[text |-> FALSE, input |-> Head(list),
                         suffix |-> <<>>]>> \o rest
            ELSE IF rest # <<>> /\ rest[1].text
            THEN <<[text |-> TRUE,
                    chars |-> StringOf(Head(list)) \o rest[1].chars]>>
                     \o Tail(rest)
            ELSE <<[text |-> TRUE, chars |-> StringOf(Head(list))]>> \o rest

\* The returned child is the text element of a run.
IsTextOfRun(element, chars) ==
    /\ element.schemaName = "text"
    /\ element.tagName = "pure-text"
    /\ element.data = JsString(chars)
    /\ element.hash = JsString(hash(chars, 12))

\* The returned child is made of the element of the entry, with the suffix
\* of the entry merged into its data.
IsCloneOfEntry(element, entry) ==
    LET source == SourceHeap[ElementOf(entry.input)]
    IN /\ element.schemaName = source.schemaName
       /\ element.tagName = source.tagName
       /\ IF entry.suffix = <<>>
          THEN element.data = source.data /\ element.hash = source.hash
          ELSE /\ element.data = JsString(source.data.chars \o entry.suffix)
               /\ element.hash =
                      JsString(hash(source.data.chars \o entry.suffix, 12))

\* The returned list is the list of entries expected.
ReturnedAre(expected) ==
    /\ normalized.defined
    /\ Len(normalized.list) = Len(expected)
    /\ \A k \in 1..Len(expected) :
          IF k > Len(normalized.list) THEN FALSE
          ELSE IF expected[k].text
          THEN IsTextOfRun(heap[normalized.list[k]], expected[k].chars)
          ELSE IsCloneOfEntry(heap[normalized.list[k]], expected[k])

\* C18 as stated: undefined gives undefined; otherwise the output keeps the
\* input order and every maximal run of inputs that are neither raw
\* elements nor uniques yields exactly one text element whose data is the
\* concatenation of their string forms and whose hash is hash(data, 12),
\* runs separated by a raw element or a unique never being merged.
C18_Original ==
    Normalized =>
        IF childrenArg.kind = "undefined" THEN ~normalized.defined
        ELSE ReturnedAre(RunsAndElements(childrenArray(childrenArg)))

\* C18 amended: the same, except that a run that directly follows a raw
\* element of the text schema yields no text element of its own: its
\* string forms are appended to the data of the clone of that element,
\* whose hash becomes hash(data, 12).
C18_RunsMerged ==
    Normalized =>
        IF childrenArg.kind = "undefined" THEN ~normalized.defined
        ELSE ReturnedAre(RunsMergedIntoText(childrenArray(childrenArg)))

\* ['A', <text T>, 'B']: the run 'A' is one text element and the run 'B'
\* is merged into the clone of T.
C18_Witness ==
    /\ Normalized
    /\ childrenArg.kind = "array"
    /\ childrenArg.items =
          << [type |-> "string", chars |-> <<65>>],
             [type |-> "raw", addr |-> 3],
             [type |-> "string", chars |-> <<66>>] >>
    /\ Len(normalized.list) = 2
    /\ heap[normalized.list[2]].data = JsString(<<84, 66>>)

\* An element with the elements nested in it, as one value.
RECURSIVE DeepValue(_, _)
DeepValue(h, a) ==
    [h[a] EXCEPT
        !.children = [i \in 1..Len(h[a].children) |->
                        DeepValue(h, h[a].children[i])]]

\* The objects the step has changed.
ChangedObjects == { a \in DOMAIN heap : heap'[a] # heap[a] }

\* C19: every raw element returned by normalizeChildren is a deep clone:
\* no object of the output is an object of the input, the call (text
\* merges included) changes no field of an input element, and after the
\* call a change of an input element or of a nested child of it changes
\* no field of the output, and the other way round.
C19_DeepClone ==
    /\ [](phase \in {"normalized", "mutated"} =>
             OutputObjects \cap SourceObjects = {})
    /\ [][phase = "normalize-start" =>
             \A a \in DOMAIN heap : heap'[a] = heap[a]]_vars
    /\ [][(phase = "normalized" /\ ChangedObjects \subseteq SourceObjects) =>
             \A k \in 1..Len(normalized.list) :
                DeepValue(heap', normalized.list[k]) =
                    DeepValue(heap, normalized.list[k])]_vars
    /\ [][(phase = "normalized" /\ ChangedObjects \cap SourceObjects = {}) =>
             \A a \in SourceObjects :
                DeepValue(heap', a) = DeepValue(heap, a)]_vars

\* The child nested in the paragraph was changed after the paragraph and
\* the text element were passed in, followed by a string.
C19_Witness ==
    /\ phase = "mutated"
    /\ childrenArg.kind = "array"
    /\ childrenArg.items =
          << [type |-> "raw", addr |-> 1],
             [type |-> "raw", addr |-> 3],
             [type |-> "string", chars |-> <<66>>] >>
    /\ heap[2] = Mutated
    /\ heap[3] = SourceHeap[3]
    /\ heap[heap[normalized.list[1]].children[1]] = SourceHeap[2]
    /\ heap[normalized.list[2]].data = JsString(<<84, 66>>)

\* The positions of the children array that hold a unique with a raw
\* element.
BoundUniqueChildren ==
    IF childrenArg.kind = "undefined" THEN {}
    ELSE { i \in 1..Len(childrenArray(childrenArg)) :
             /\ childrenArray(childrenArg)[i].type = "unique"
             /\ uniqueRaw[childrenArray(childrenArg)[i].name] # NullAddr }

\* The returned child made of the child at position i.
ReturnedFor(i) ==
    heap[normalized.list[
        Len(RunsMergedIntoText(SubSeq(childrenArray(childrenArg), 1, i)))]]

\* The returned child is a clone without uniqueName, the unique holds the
\* raw element it held, which is as it was.
UniqueChildCloned(i) ==
    LET unique == childrenArray(childrenArg)[i].name
        rawElement == uniqueRaw[unique]
    IN /\ ReturnedFor(i).uniqueName = Undef
       /\ [ReturnedFor(i) EXCEPT !.slug = Undef, !.children = <<>>] =
             [heap[rawElement] EXCEPT !.slug = Undef, !.uniqueName = Undef,
                                      !.children = <<>>]
       /\ Len(ReturnedFor(i).children) = Len(heap[rawElement].children)
       /\ rawElement \notin OutputObjects
       /\ heap[rawElement] = SourceHeap[rawElement]

\* C20 as stated: the child returned for a bound unique is a clone of its
\* raw element without uniqueName and with the name of the unique as slug;
\* the unique stays bound to its raw element, which keeps its uniqueName
\* and gains no slug, however often the unique is passed.
C20_Original ==
    /\ [][uniqueRaw' = uniqueRaw]_vars
    /\ [](Normalized =>
            \A i \in BoundUniqueChildren :
               /\ UniqueChildCloned(i)
               /\ ReturnedFor(i).slug = childrenArray(childrenArg)[i].name)

\* C20 amended: the slug of the clone is the uniqueName of the raw element
\* of the unique, which is the name of the unique when a tag bound it and
\* undefined when the raw element carries no uniqueName.
C20_SlugFromUniqueName ==
    /\ [][uniqueRaw' = uniqueRaw]_vars
    /\ [](Normalized =>
            \A i \in BoundUniqueChildren :
               /\ UniqueChildCloned(i)
               /\ ReturnedFor(i).slug =
                     SourceHeap[ElementOf(childrenArray(childrenArg)[i])]
                         .uniqueName)

\* The unique bound by a tag is passed twice, with a string in between.
C20_Witness ==
    /\ Normalized
    /\ uniqueRaw["myUnique"] = 1
    /\ childrenArg.kind = "array"
    /\ childrenArg.items =
          << [type |-> "unique", name |-> "myUnique"],
             [type |-> "string", chars |-> <<65>>],
             [type |-> "unique", name |-> "myUnique"] >>
    /\ Len(normalized.list) = 3
    /\ heap[normalized.list[1]].slug = "myUnique"
    /\ heap[normalized.list[3]].slug = "myUnique"
    /\ heap[1].uniqueName = "myUnique"

\* ------------------------------------------------------------------------
\* Further properties of resolveRawElement
\* ------------------------------------------------------------------------

\* Two elements of the tree carry unique names with the same id, and no
\* unique name of the tree has a supplied id.
CollisionInTreeOnly ==
    /\ \E n, m \in Nodes :
         /\ n # m /\ Anchored(n) /\ Anchored(m)
         /\ uniqueName2Id(raw[n].uniqueName) = uniqueName2Id(raw[m].uniqueName)
    /\ \A n \in Nodes :
         Anchored(n) =>
             uniqueName2Id(raw[n].uniqueName) \notin NewSet(externalIds)

\* C25: when resolveRawElement with linkable = true is rejected because two
\* uniques of the tree have the same id, it is rejected by the pre-scan:
\* no pre hook and no post hook has run and no id has been assigned.
C25_RejectedByPreScan ==
    (linkable /\ phase = "rejected" /\ CollisionInTreeOnly) =>
        /\ hookLog = <<>>
        /\ prose = << >>
        /\ ids = NewSet(externalIds)

\* The hook invocations of the resolution of the subtree of n: pre, the
\* traces of the children one after another, post.
RECURSIVE HookTrace(_), HookTraceAll(_)
HookTrace(n) ==
    <<<<"pre", n>>>> \o HookTraceAll(ChildrenOf(n)) \o <<<<"post", n>>>>
HookTraceAll(list) ==
    IF list = <<>> THEN <<>>
    ELSE HookTrace(Head(list)) \o HookTraceAll(Tail(list))

\* C26: the hook invocations of a successful resolveRawElement are the
\* depth-first trace of the raw tree: pre of an element once before every
\* hook of its descendants, the traces of its children left to right
\* without interleaving, post of the element once after them.
C26_HooksDepthFirst ==
    /\ phase \in {"start", "hook", "prescan", "resolving", "rejected",
                  "done"} =>
          IsPrefix(hookLog, HookTrace(Root))
    /\ Resolved => hookLog = HookTrace(Root)

C26_Witness ==
    /\ Resolved
    /\ Len(ChildrenOf(Root)) = 2
    /\ hookLog = << <<"pre", 1>>, <<"pre", 2>>, <<"post", 2>>,
                    <<"pre", 3>>, <<"post", 3>>, <<"post", 1>> >>

\* Element p is above element d, neither carries a unique name, both
\* receive an id and both have the same base id.
SameBasePair(p, d) ==
    /\ p \in AncestorsOf(d)
    /\ ~Anchored(p) /\ ~Anchored(d)
    /\ ShouldAssignId(p) /\ ShouldAssignId(d)
    /\ BaseId(raw[p]) = BaseId(raw[d])

\* An element is completed only when all elements below it are, with
\* their ids.
DescendantsFirst ==
    \A n \in DOMAIN prose' \ DOMAIN prose :
        \A d \in Nodes :
            n \in AncestorsOf(d) =>
                /\ d \in DOMAIN prose
                /\ ShouldAssignId(d) => prose[d].id # Undef

\* The element below has an earlier candidate of the base than the
\* element above.
EarlierCandidateBelow(p, d) ==
    \E i, j \in 0..(Cardinality(Nodes) + Cardinality(ids \cup uniqueIds)) :
        /\ i < j
        /\ prose[d].id = Candidate(BaseId(raw[d]), i)
        /\ prose[p].id = Candidate(BaseId(raw[p]), j)

\* Neither base nor base-1 is a supplied id, the id of a unique of the
\* tree or the id of an element other than the two.
PairCandidatesFree(p, d) ==
    LET cands == {Candidate(BaseId(raw[d]), 0), Candidate(BaseId(raw[d]), 1)}
    IN /\ cands \cap NewSet(externalIds) = {}
       /\ cands \cap uniqueIds = {}
       /\ \A n \in Nodes \ {p, d} : HasId(n) => prose[n].id \notin cands

\* C27 as stated: ids are assigned in post-order, so of an element and an
\* element below it with the same base id, the one below always has the
\* bare base id and the one above base-1.
C27_Original ==
    /\ [][DescendantsFirst]_vars
    /\ [](Resolved =>
            \A p, d \in Nodes :
                SameBasePair(p, d) =>
                    /\ prose[d].id = Candidate(BaseId(raw[d]), 0)
                    /\ prose[p].id = Candidate(BaseId(raw[d]), 1))

\* C27 amended: ids are assigned in post-order, so the element below has
\* an earlier candidate of the base than the element above; they are the
\* bare base id and base-1 when neither of these is a supplied id, the id
\* of a unique or the id of a third element.
C27_PostOrderIds ==
    /\ [][DescendantsFirst]_vars
    /\ [](Resolved =>
            \A p, d \in Nodes :
                SameBasePair(p, d) =>
                    /\ EarlierCandidateBelow(p, d)
                    /\ PairCandidatesFree(p, d) =>
                          /\ prose[d].id = Candidate(BaseId(raw[d]), 0)
                          /\ prose[p].id = Candidate(BaseId(raw[d]), 1))

C27_Witness ==
    /\ Resolved
    /\ \E p, d \in Nodes :
         /\ SameBasePair(p, d)
         /\ PairCandidatesFree(p, d)
         /\ Truthy(raw[d].slug)
         /\ prose[d].id = "my-unique"
         /\ prose[p].id = "my-unique-1"

\* ------------------------------------------------------------------------
\* Further properties of Registry and normalizeChildren
\* ------------------------------------------------------------------------

\* The argument of the last removeItem is registered: the item itself is
\* in the schema map, or the schema map has the name of the schema.
RemovedWasRegistered ==
    LET arg == regLast.arg[1]
    IN IF "schema" \in DOMAIN arg
       THEN /\ arg.schema.name \in DOMAIN regLast.items
            /\ regLast.items[arg.schema.name] = arg
       ELSE arg.name \in DOMAIN regLast.items

\* C28: after every sequence of addItem, addItems, setItems and removeItem
\* calls the two maps agree: every tag of the tag map is a tag of an item
\* of the schema map, every tag of every item of the schema map is in the
\* tag map under its name, and removeItem of a schema or item that is not
\* registered changes nothing.
C28_MapsAgree ==
    /\ \A t \in DOMAIN regTags :
          \E name \in DOMAIN regItems :
             /\ t \in DOMAIN regItems[name].tags
             /\ regItems[name].tags[t] = regTags[t]
    /\ \A name \in DOMAIN regItems :
          \A t \in DOMAIN regItems[name].tags :
             /\ t \in DOMAIN regTags
             /\ regTags[t] = regItems[name].tags[t]
    /\ (LastCallIs("removeItem") /\ ~RemovedWasRegistered) =>
          /\ regItems = regLast.items
          /\ regTags = regLast.tags

\* C30: the list returned by normalizeChildren never has two adjacent
\* children of the text schema, whatever the input list mixes, raw
\* elements of the text schema included.
C30_NoAdjacentText ==
    Normalized =>
        \A k \in 1..(Len(normalized.list) - 1) :
            ~ /\ heap[normalized.list[k]].schemaName = "text"
              /\ heap[normalized.list[k + 1]].schemaName = "text"

\* ------------------------------------------------------------------------
\* Properties of defineTag and Fragment
\* ------------------------------------------------------------------------

\* The invocation of a tag is through.
TagCalled == phase \in {"tag-returned", "tag-threw"}

\* The tag definition the last invocation was made with; Fragment has none.
CalledDefinition == TagDefinitions[tagCall.tag]

\* The children given to the last invocation, as a sequence.
GivenChildren ==
    IF tagCall.props.children.kind = "undefined" THEN <<>>
    ELSE childrenArray(tagCall.props.children)

\* The schema name of the element a given child is normalized to, from the
\* uniques as they were when the tag was invoked; Undef for a unique
\* without raw element.
GivenSchemaName(child) ==
    CASE child.type = "raw" -> heap[child.addr].schemaName
      [] child.type = "unique" ->
            IF tagCall.uniqueRaw[child.name] = NullAddr THEN Undef
            ELSE heap[tagCall.uniqueRaw[child.name]].schemaName
      [] OTHER -> "text"

\* The type of the schema registered under a name; Undef when there is none.
RegisteredType(schemaName) ==
    IF schemaName \in DOMAIN regItems
    THEN SchemaType(regItems[schemaName].schema)
    ELSE Undef

GivenType(k) == RegisteredType(GivenSchemaName(GivenChildren[k]))

\* The last invocation returned an element built by a tag of an inliner
\* schema; Fragment builds with the Inliners tag or with the Mix tag.
BuiltByInlinerTag ==
    /\ phase = "tag-returned"
    /\ IF tagCall.tag = "Fragment"
       THEN heap[tagCall.element].schemaName = "inliners"
       ELSE CalledDefinition.type = "inliner"

\* C23: an element returned by a tag of an inliner schema has children of
\* inliner schemas only; a tag of an inliner schema given a child of a block
\* schema throws; Fragment given children that are all inliners returns an
\* element of the inliners schema, and given inliners and blocks with at
\* least one block it returns an element of the mix schema.
C23_InlinerChildren ==
    /\ BuiltByInlinerTag
         => \A k \in 1..Len(heap[tagCall.element].children) :
                RegisteredType(
                    heap[heap[tagCall.element].children[k]].schemaName)
                        = "inliner"
    /\ (/\ TagCalled
        /\ tagCall.tag \in DOMAIN TagDefinitions
        /\ CalledDefinition.type = "inliner"
        /\ \E k \in 1..Len(GivenChildren) : GivenType(k) = "block")
         => tagCall.threw
    /\ (/\ TagCalled
        /\ tagCall.tag = "Fragment"
        /\ tagCall.props.registryProp
        /\ tagCall.props.children.kind # "undefined"
        /\ \A k \in 1..Len(GivenChildren) :
               GivenType(k) \in {"inliner", "block"})
         => /\ ~tagCall.threw
            /\ heap[tagCall.element].schemaName =
                   IF \A k \in 1..Len(GivenChildren) : GivenType(k) = "inliner"
                   THEN "inliners"
                   ELSE "mix"

\* Fragment was given an inliner and a block and returned a mix element.
C23_Witness ==
    /\ phase = "tag-returned"
    /\ tagCall.tag = "Fragment"
    /\ Len(GivenChildren) = 2
    /\ GivenType(1) = "inliner"
    /\ GivenType(2) = "block"
    /\ heap[tagCall.element].schemaName = "mix"

\* C29: a tag invoked with a unique as $ that had no raw element either
\* returns an element and the unique holds that element, or throws and the
\* unique holds no raw element.
C29_BoundOrUnbound ==
    (/\ TagCalled
     /\ tagCall.props.unique # "none"
     /\ tagCall.uniqueRaw[tagCall.props.unique] = NullAddr)
        => IF tagCall.threw
           THEN uniqueRaw[tagCall.props.unique] = NullAddr
           ELSE uniqueRaw[tagCall.props.unique] = tagCall.element

\* ------------------------------------------------------------------------
\* Properties of defineDocument and isolateProse
\* ------------------------------------------------------------------------

\* The finalizer of the document defined last was called and is through.
Finalized ==
    /\ finalLog # <<>>
    /\ Finalizing.document = CurrentDocument
    /\ Finalizing.state \in {"returned", "threw"}

\* The assignments to rawElement of unique u that went through.
AssignmentsTo(u) ==
    { k \in 1..Len(uniqueLog) :
        uniqueLog[k].unique = u /\ ~uniqueLog[k].threw }

\* C21: the finalizer throws when a unique of the definition holds no raw
\* element once the content function has run; when it returns the document,
\* every unique of the definition holds a raw element that was assigned to
\* it by exactly one assignment.
C21_AnchorsBound ==
    Finalized =>
        /\ (\E u \in docLog[CurrentDocument].uniques :
                uniqueRaw[u] = NullAddr)
              => Finalizing.state = "threw"
        /\ Finalizing.state = "returned"
              => \A u \in docLog[CurrentDocument].uniques :
                     /\ uniqueRaw[u] # NullAddr
                     /\ Cardinality(AssignmentsTo(u)) = 1
                     /\ \E k \in AssignmentsTo(u) :
                            uniqueLog[k].value = uniqueRaw[u]

\* The finalizer of a document with two uniques returned the document.
C21_Witness ==
    /\ Finalized
    /\ Finalizing.state = "returned"
    /\ Cardinality(docLog[CurrentDocument].uniques) = 2

\* C22: no two calls of defineDocument that return obtain the same document
\* id; a call with an explicit id that is in the id set throws and leaves
\* the id set and the counter as they were.
C22_UniqueDocumentIds ==
    /\ \A i, j \in DefinedDocuments :
           i # j => docLog[i].documentId # docLog[j].documentId
    /\ \A k \in 1..Len(docLog) :
           (docLog[k].arg # Undef /\ docLog[k].arg \in docLog[k].ids)
              => /\ docLog[k].threw
                 /\ docLog[k].idsAfter = docLog[k].ids
                 /\ docLog[k].counterAfter = docLog[k].counter

\* The registry holds the built-in items and nothing else.
RegistryIsBuiltIn ==
    LET defaults == setDefaultItems([items |-> << >>, tags |-> << >>])
    IN regItems = defaults.items /\ regTags = defaults.tags

\* The call of isolateProse is through: func returned or threw, or the
\* promise it returned was fulfilled or rejected.
IsolateCompleted ==
    phase \in {"isolate-returned", "isolate-threw", "isolate-resolved",
               "isolate-rejected"}

\* C24: once the call of isolateProse is through, the registry holds the
\* built-in items only and the set of document ids is empty.
C24_SingletonRestored ==
    IsolateCompleted => (RegistryIsBuiltIn /\ docIds = {})

====
